---- MODULE Spec2Model ----
(***************************************************************************)
(* Status workflow of the invoices service: the transition tables and the  *)
(* validators of src/invoices/workflow.py, and the state-changing methods  *)
(* of InvoiceService and PurchaseOrderService (src/invoices/service.py)    *)
(* acting on the rows of the two tables they persist to.                   *)
(*                                                                         *)
(* Python values are written as strings: None is "None", True is "True",   *)
(* False is "False", a datetime is a token of Times.  An Optional[dict]    *)
(* result is a set with at most one row, {} being None.                    *)
(***************************************************************************)
EXTENDS Naturals, Sequences, FiniteSets, TLC

VARIABLES
    obj_tp_job_invoice,     \* table of Invoice rows, keyed by obj_uuid
    obj_tp_purchaseorder,   \* table of PurchaseOrder rows, keyed by obj_uuid
    last,                   \* outcome of the most recent service call
    po_path,                \* history of each purchase order's status (see TrackPO)
    call,                   \* one call of a validator: arguments and result
    requests,               \* update requests between their load and commit
    chain                   \* statuses one document went through, in order

vars == <<obj_tp_job_invoice, obj_tp_purchaseorder, last, po_path, call,
          requests, chain>>

----------------------------------------------------------------------------
(* Python values *)

None == "None"
True == "True"
False == "False"

\* bool(x) of an Optional[str]
Truthy(x) == x # None /\ x # ""

\* isinstance(x, str)
IsStr(x) == x # None

\* x or default
OrDefault(x, default) == IF Truthy(x) THEN x ELSE default

\* value in list
InList(x, list) == \E i \in 1..Len(list) : list[i] = x

----------------------------------------------------------------------------
(* enums.py *)

InvoiceStatus ==
    {"Draft", "Pending", "Sent", "Paid", "Overdue", "Cancelled", "Refunded"}

POStatus ==
    {"Pending", "Accepted", "Declined", "In Progress", "Completed",
     "Approved", "Paid", "Cancelled", "Expired", "Disputed"}

----------------------------------------------------------------------------
(* workflow.py *)

InvalidStatusTransitionError == "InvalidStatusTransitionError"

\* the invoice table with an edge from Overdue back to Sent
INVOICE_STATUS_TRANSITIONS_Resend ==
    ("Draft" :> <<"Pending", "Sent", "Cancelled">>) @@
    ("Pending" :> <<"Sent", "Cancelled">>) @@
    ("Sent" :> <<"Paid", "Overdue", "Cancelled">>) @@
    ("Paid" :> <<"Refunded">>) @@
    ("Overdue" :> <<"Paid", "Sent", "Cancelled">>) @@
    ("Cancelled" :> <<>>) @@
    ("Refunded" :> <<>>)

\* the invoice table with a direct edge from Draft to Paid
INVOICE_STATUS_TRANSITIONS_DraftToPaid ==
    ("Draft" :> <<"Pending", "Sent", "Paid", "Cancelled">>) @@
    ("Pending" :> <<"Sent", "Cancelled">>) @@
    ("Sent" :> <<"Paid", "Overdue", "Cancelled">>) @@
    ("Paid" :> <<"Refunded">>) @@
    ("Overdue" :> <<"Paid", "Cancelled">>) @@
    ("Cancelled" :> <<>>) @@
    ("Refunded" :> <<>>)

INVOICE_STATUS_TRANSITIONS ==
    ("Draft" :> <<"Pending", "Sent", "Cancelled">>) @@
    ("Pending" :> <<"Sent", "Cancelled">>) @@
    ("Sent" :> <<"Paid", "Overdue", "Cancelled">>) @@
    ("Paid" :> <<"Refunded">>) @@
    ("Overdue" :> <<"Paid", "Cancelled">>) @@
    ("Cancelled" :> <<>>) @@
    ("Refunded" :> <<>>)

\* the purchase-order table with an edge from Accepted to Completed
PO_STATUS_TRANSITIONS_SkipInProgress ==
    ("Pending" :> <<"Accepted", "Declined", "Cancelled">>) @@
    ("Accepted" :> <<"In Progress", "Completed", "Cancelled">>) @@
    ("In Progress" :> <<"Completed", "Cancelled">>) @@
    ("Completed" :> <<"Approved">>) @@
    ("Approved" :> <<"Paid">>) @@
    ("Paid" :> <<>>) @@
    ("Declined" :> <<>>) @@
    ("Cancelled" :> <<>>) @@
    ("Expired" :> <<>>) @@
    ("Disputed" :> <<"Approved", "Cancelled">>)

\* the purchase-order table without the edge from Completed to Approved
PO_STATUS_TRANSITIONS_NoApproval ==
    ("Pending" :> <<"Accepted", "Declined", "Cancelled">>) @@
    ("Accepted" :> <<"In Progress", "Cancelled">>) @@
    ("In Progress" :> <<"Completed", "Cancelled">>) @@
    ("Completed" :> <<>>) @@
    ("Approved" :> <<"Paid">>) @@
    ("Paid" :> <<>>) @@
    ("Declined" :> <<>>) @@
    ("Cancelled" :> <<>>) @@
    ("Expired" :> <<>>) @@
    ("Disputed" :> <<"Approved", "Cancelled">>)

PO_STATUS_TRANSITIONS ==
    ("Pending" :> <<"Accepted", "Declined", "Cancelled">>) @@
    ("Accepted" :> <<"In Progress", "Cancelled">>) @@
    ("In Progress" :> <<"Completed", "Cancelled">>) @@
    ("Completed" :> <<"Approved">>) @@
    ("Approved" :> <<"Paid">>) @@
    ("Paid" :> <<>>) @@
    ("Declined" :> <<>>) @@
    ("Cancelled" :> <<>>) @@
    ("Expired" :> <<>>) @@
    ("Disputed" :> <<"Approved", "Cancelled">>)

\* dict.get(key, [])
GetOrEmpty(table, key) == IF key \in DOMAIN table THEN table[key] ELSE <<>>

\* Enum(value) raises ValueError for a string that is no member's value
RaisesValueError(enum, value) == IsStr(value) /\ value \notin enum

\* the invoice validator without the same-status shortcut
validate_invoice_status_transition_NoSameStatus(current_status, new_status) ==
    IF RaisesValueError(InvoiceStatus, current_status)
       \/ RaisesValueError(InvoiceStatus, new_status) THEN "True"
    ELSE LET allowed_transitions ==
                 GetOrEmpty(INVOICE_STATUS_TRANSITIONS, current_status)
         IN  IF ~InList(new_status, allowed_transitions)
             THEN InvalidStatusTransitionError
             ELSE "True"

\* The result is "True" (the function returns True) or
\* InvalidStatusTransitionError (the function raises it).
validate_invoice_status_transition(current_status, new_status) ==
    IF current_status = new_status THEN "True"
    ELSE IF RaisesValueError(InvoiceStatus, current_status)
            \/ RaisesValueError(InvoiceStatus, new_status) THEN "True"
    ELSE LET allowed_transitions ==
                 GetOrEmpty(INVOICE_STATUS_TRANSITIONS, current_status)
         IN  IF ~InList(new_status, allowed_transitions)
             THEN InvalidStatusTransitionError
             ELSE "True"

\* the purchase-order validator taking an empty successor list for "no
\* restriction"
validate_po_status_transition_EmptyUnchecked(current_status, new_status) ==
    IF current_status = new_status THEN "True"
    ELSE IF RaisesValueError(POStatus, current_status)
            \/ RaisesValueError(POStatus, new_status) THEN "True"
    ELSE LET allowed_transitions ==
                 GetOrEmpty(PO_STATUS_TRANSITIONS, current_status)
         IN  IF Len(allowed_transitions) > 0
                /\ ~InList(new_status, allowed_transitions)
             THEN InvalidStatusTransitionError
             ELSE "True"

\* the purchase-order validator catching the ValueError of the current
\* status only
validate_po_status_transition_CurrentOnly(current_status, new_status) ==
    IF current_status = new_status THEN "True"
    ELSE IF RaisesValueError(POStatus, current_status) THEN "True"
    ELSE LET allowed_transitions ==
                 GetOrEmpty(PO_STATUS_TRANSITIONS, current_status)
         IN  IF ~InList(new_status, allowed_transitions)
             THEN InvalidStatusTransitionError
             ELSE "True"

validate_po_status_transition(current_status, new_status) ==
    IF current_status = new_status THEN "True"
    ELSE IF RaisesValueError(POStatus, current_status)
            \/ RaisesValueError(POStatus, new_status) THEN "True"
    ELSE LET allowed_transitions ==
                 GetOrEmpty(PO_STATUS_TRANSITIONS, current_status)
         IN  IF ~InList(new_status, allowed_transitions)
             THEN InvalidStatusTransitionError
             ELSE "True"

----------------------------------------------------------------------------
(* Inputs *)

\* status strings a caller or a legacy row can carry beside the enum values
LegacyStatus == {"Archived", ""}

StatusArgs == InvoiceStatus \cup POStatus \cup LegacyStatus \cup {None}

InvoiceStatusInputs == InvoiceStatus \cup {"Approved"} \cup LegacyStatus \cup {None}

POStatusInputs == POStatus \cup LegacyStatus \cup {None}

Uuids == {"UUID-1234"}

Users == {"user-123"}

Times == {"2025-01-01", "2025-01-02"}

Amounts == {"500.00", "750.00"}

----------------------------------------------------------------------------
(* One validator call: SpecValidator *)

NoCall == [type |-> "none", current_status |-> None, new_status |-> None,
           result |-> "none"]

ValidateInvoice ==
    /\ call.type = "invoice"
    /\ call.result = "pending"
    /\ call' = [call EXCEPT !.result =
                   validate_invoice_status_transition(call.current_status,
                                                      call.new_status)]
    /\ UNCHANGED <<obj_tp_job_invoice, obj_tp_purchaseorder, last, po_path,
                   requests, chain>>

ValidatePO ==
    /\ call.type = "po"
    /\ call.result = "pending"
    /\ call' = [call EXCEPT !.result =
                   validate_po_status_transition(call.current_status,
                                                 call.new_status)]
    /\ UNCHANGED <<obj_tp_job_invoice, obj_tp_purchaseorder, last, po_path,
                   requests, chain>>

----------------------------------------------------------------------------
(* Chains of transitions *)

\* One document of one type and the statuses it has held, oldest first; each
\* status after the first was accepted by the type's validator as the
\* successor of the one before it.
NoChain == [type |-> "none", path |-> <<>>]

\* longest chain followed; longer than the longest chain the tables allow
MaxChain == 7

Enumeration(type) == IF type = "invoice" THEN InvoiceStatus ELSE POStatus

CurrentStatus == chain.path[Len(chain.path)]

\* A caller asks the validator whether the document may move from its
\* current status to another member of its enumeration.
RequestTransition(new_status) ==
    /\ call.result # "pending"
    /\ Len(chain.path) < MaxChain
    /\ new_status # CurrentStatus
    /\ call' = [type |-> chain.type, current_status |-> CurrentStatus,
                new_status |-> new_status, result |-> "pending"]
    /\ UNCHANGED <<obj_tp_job_invoice, obj_tp_purchaseorder, last, po_path,
                   requests, chain>>

\* The validator returned True: the document takes the requested status.
FollowTransition ==
    /\ call.result = "True"
    /\ call.current_status = CurrentStatus
    /\ chain' = [chain EXCEPT !.path = Append(@, call.new_status)]
    /\ call' = NoCall
    /\ UNCHANGED <<obj_tp_job_invoice, obj_tp_purchaseorder, last, po_path,
                   requests>>

----------------------------------------------------------------------------
(* Rows, requests and responses *)

Unset == "<unset>"

\* model_dump(exclude_unset=True): a field the request did not set has no key
Field(key, value) == IF value = Unset THEN <<>> ELSE (key :> value)

\* for key, value in update_data.items(): setattr(row, key, value)
SetAttrs(row, update_data) ==
    [key \in DOMAIN row |->
        IF key \in DOMAIN update_data THEN update_data[key] ELSE row[key]]

\* A row carries the columns the status operations read or write (status,
\* the soft-delete flag, the audit and approval columns) and amount as the
\* opaque payload.
\* Invoice(**invoice_dict): a column the dict does not give is NULL
NewInvoice(invoice_dict) ==
    SetAttrs([status |-> None, deleted |-> None, amount |-> None,
              modified |-> None, modified_by |-> None,
              invoice_type |-> None, notes |-> None], invoice_dict)

\* PurchaseOrder(**po_dict)
NewPurchaseOrder(po_dict) ==
    SetAttrs([status |-> None, is_deleted |-> None, amount |-> None,
              approvedforpayment |-> None, approveddate |-> None,
              modified |-> None], po_dict)

\* Requests are drawn from those that set the fields the rows carry: a
\* create request gives the amount, sets the deleted flag to False (as the
\* stored fixtures do) and may set the status; an update request may set the
\* amount and the status.  A status left unset is stored as NULL: the schema
\* default is dropped by exclude_unset.
InvoiceCreateRequests ==
    {("amount" :> a) @@ ("deleted" :> False) @@ Field("status", s) :
        a \in Amounts, s \in InvoiceStatusInputs \cup {Unset}}

InvoiceUpdateRequests ==
    {Field("amount", a) @@ Field("status", s) :
        a \in Amounts \cup {Unset}, s \in InvoiceStatusInputs \cup {Unset}}

PurchaseOrderCreateRequests ==
    {("amount" :> a) @@ ("is_deleted" :> False) @@ Field("status", s) :
        a \in Amounts, s \in POStatusInputs \cup {Unset}}

PurchaseOrderUpdateRequests ==
    {Field("amount", a) @@ Field("status", s) :
        a \in Amounts \cup {Unset}, s \in POStatusInputs \cup {Unset}}

\* A sales order is a row of the invoice table.  Its create request may set
\* the status, the invoice_type and the notes (the schema has no deleted
\* field); an update request may set the status and the notes.
SalesOrderStatusInputs == {"Draft", "Sent", "Cancelled", None}

Notes == {"hold"}

SalesOrderCreateRequests ==
    {Field("status", s) @@ Field("invoice_type", t) @@ Field("notes", n) :
        s \in SalesOrderStatusInputs \cup {Unset},
        t \in {"Sales Order", "", Unset},
        n \in Notes \cup {Unset}}

SalesOrderUpdateRequests ==
    {Field("status", s) @@ Field("notes", n) :
        s \in SalesOrderStatusInputs \cup {Unset}, n \in Notes \cup {Unset}}

\* TransformToInvoiceRequest: invoice_type left unset reads as its default
TransformToInvoiceRequest(invoice_type) ==
    [invoice_type |-> IF invoice_type = Unset THEN "Tax Invoice" ELSE invoice_type]

TransformToInvoiceRequests ==
    {TransformToInvoiceRequest(t) : t \in {Unset, None, "", "Sales Order"}}

\* CancelSalesOrderRequest
CancelSalesOrderRequests == {[reason |-> r] : r \in {None, "", "dup"}}

\* uuid.uuid4(): an identifier no row of the store has
Fresh(uuid) ==
    uuid \notin DOMAIN obj_tp_job_invoice \cup DOMAIN obj_tp_purchaseorder

NoResponse ==
    [op |-> "none", uuid |-> None, outcome |-> "none", validated |-> FALSE,
     pre_status |-> None, returned |-> {}, keys |-> {}]

\* What a service call leaves for its caller: outcome is "ok" or the name of
\* the exception raised, returned the Optional[dict] result, validated
\* whether the transition validator was called, pre_status the status the
\* call loaded, keys the fields of the update request.
Response(op, uuid, outcome, validated, pre_status, returned, keys) ==
    [op |-> op, uuid |-> uuid, outcome |-> outcome, validated |-> validated,
     pre_status |-> pre_status, returned |-> returned, keys |-> keys]

NotFound(op, uuid, error) == Response(op, uuid, error, FALSE, None, {}, {})

----------------------------------------------------------------------------
(* History of a purchase order's status *)

ApprovalChain == <<"Accepted", "In Progress", "Completed", "Approved">>

\* The history of an order created in status "Pending", kept while
\* update_purchase_order and approve_purchase_order are the only calls that
\* changed it: stage counts the leading statuses of ApprovalChain the order
\* has held, in order; recognized_requests holds while every status an update
\* requested is a member of POStatus.  Any other order has NoPath.
NoPath == [tracked |-> FALSE, stage |-> 0, recognized_requests |-> TRUE]

NewPath(status) ==
    IF status = "Pending"
    THEN [tracked |-> TRUE, stage |-> 0, recognized_requests |-> TRUE]
    ELSE NoPath

Advance(path, status) ==
    IF path.tracked /\ path.stage < Len(ApprovalChain)
       /\ status = ApprovalChain[path.stage + 1]
    THEN [path EXCEPT !.stage = path.stage + 1]
    ELSE path

TrackUpdate(path, update_data, status) ==
    IF path.tracked
    THEN [Advance(path, status) EXCEPT !.recognized_requests =
             path.recognized_requests
             /\ ("status" \in DOMAIN update_data
                    => update_data["status"] \in POStatus)]
    ELSE path

TrackOther(path) == NoPath

----------------------------------------------------------------------------
(* InvoiceService *)

InvoiceNotFoundError == "InvoiceNotFoundError"

\* select(Invoice).where(obj_uuid == invoice_uuid, deleted != True)
LiveInvoice(table, invoice_uuid) ==
    invoice_uuid \in DOMAIN table /\ table[invoice_uuid].deleted # True

\* the row as a dict, or None ({}); the job_uuid joined in from the job
\* table is not part of the invoice's state
get_invoice(table, invoice_uuid) ==
    IF LiveInvoice(table, invoice_uuid) THEN {table[invoice_uuid]} ELSE {}

create_invoice(new_uuid, invoice_data, user_id, now) ==
    /\ Fresh(new_uuid)
    /\ LET invoice_dict == ("modified" :> now) @@ invoice_data
           table == (new_uuid :> NewInvoice(invoice_dict)) @@ obj_tp_job_invoice
       IN  /\ obj_tp_job_invoice' = table
           /\ last' = Response("create_invoice", new_uuid, "ok", FALSE, None,
                               get_invoice(table, new_uuid), DOMAIN invoice_data)
    /\ UNCHANGED <<obj_tp_purchaseorder, po_path, call, requests, chain>>

get_invoice_or_404(invoice_uuid) ==
    /\ IF ~LiveInvoice(obj_tp_job_invoice, invoice_uuid)
       THEN last' = NotFound("get_invoice_or_404", invoice_uuid,
                             InvoiceNotFoundError)
       ELSE last' = Response("get_invoice_or_404", invoice_uuid, "ok", FALSE,
                             obj_tp_job_invoice[invoice_uuid].status,
                             get_invoice(obj_tp_job_invoice, invoice_uuid), {})
    /\ UNCHANGED <<obj_tp_job_invoice, obj_tp_purchaseorder, po_path, call, requests, chain>>

\* update_invoice assigning and committing the fields before it validates
update_invoice_WriteFirst(invoice_uuid, invoice_data, user_id, now) ==
    /\ IF ~LiveInvoice(obj_tp_job_invoice, invoice_uuid)
       THEN /\ last' = NotFound("update_invoice", invoice_uuid, InvoiceNotFoundError)
            /\ UNCHANGED obj_tp_job_invoice
       ELSE LET invoice == obj_tp_job_invoice[invoice_uuid]
                update_data == ("modified" :> now) @@ ("modified_by" :> user_id)
                               @@ invoice_data
                validated == "status" \in DOMAIN update_data /\ Truthy(invoice.status)
                verdict == IF validated
                           THEN validate_invoice_status_transition(
                                    invoice.status, update_data["status"])
                           ELSE "True"
                table == [obj_tp_job_invoice EXCEPT
                             ![invoice_uuid] = SetAttrs(invoice, update_data)]
            IN  /\ obj_tp_job_invoice' = table
                /\ IF verdict = InvalidStatusTransitionError
                   THEN last' = Response("update_invoice", invoice_uuid,
                                         InvalidStatusTransitionError, validated,
                                         invoice.status, {}, DOMAIN invoice_data)
                   ELSE last' = Response("update_invoice", invoice_uuid, "ok",
                                         validated, invoice.status,
                                         get_invoice(table, invoice_uuid),
                                         DOMAIN invoice_data)
    /\ UNCHANGED <<obj_tp_purchaseorder, po_path, call, requests, chain>>

update_invoice(invoice_uuid, invoice_data, user_id, now) ==
    /\ IF ~LiveInvoice(obj_tp_job_invoice, invoice_uuid)
       THEN /\ last' = NotFound("update_invoice", invoice_uuid, InvoiceNotFoundError)
            /\ UNCHANGED obj_tp_job_invoice
       ELSE LET invoice == obj_tp_job_invoice[invoice_uuid]
                update_data == ("modified" :> now) @@ ("modified_by" :> user_id)
                               @@ invoice_data
                validated == "status" \in DOMAIN update_data /\ Truthy(invoice.status)
                verdict == IF validated
                           THEN validate_invoice_status_transition(
                                    invoice.status, update_data["status"])
                           ELSE "True"
                table == [obj_tp_job_invoice EXCEPT
                             ![invoice_uuid] = SetAttrs(invoice, update_data)]
            IN  IF verdict = InvalidStatusTransitionError
                THEN /\ last' = Response("update_invoice", invoice_uuid,
                                         InvalidStatusTransitionError, validated,
                                         invoice.status, {}, DOMAIN invoice_data)
                     /\ UNCHANGED obj_tp_job_invoice
                ELSE /\ obj_tp_job_invoice' = table
                     /\ last' = Response("update_invoice", invoice_uuid, "ok",
                                         validated, invoice.status,
                                         get_invoice(table, invoice_uuid),
                                         DOMAIN invoice_data)
    /\ UNCHANGED <<obj_tp_purchaseorder, po_path, call, requests, chain>>

delete_invoice(invoice_uuid, user_id, now) ==
    /\ IF ~LiveInvoice(obj_tp_job_invoice, invoice_uuid)
       THEN /\ last' = NotFound("delete_invoice", invoice_uuid, InvoiceNotFoundError)
            /\ UNCHANGED obj_tp_job_invoice
       ELSE LET invoice == obj_tp_job_invoice[invoice_uuid]
            IN  /\ obj_tp_job_invoice' =
                       [obj_tp_job_invoice EXCEPT ![invoice_uuid] =
                           [invoice EXCEPT !.deleted = True,
                                           !.modified = now,
                                           !.modified_by = user_id]]
                /\ last' = Response("delete_invoice", invoice_uuid, "ok", FALSE,
                                    invoice.status, {}, {})
    /\ UNCHANGED <<obj_tp_purchaseorder, po_path, call, requests, chain>>

\* archive_invoice writing the status without the flag
archive_invoice_StatusOnly(invoice_uuid, user_id, now) ==
    /\ IF ~LiveInvoice(obj_tp_job_invoice, invoice_uuid)
       THEN /\ last' = NotFound("archive_invoice", invoice_uuid, InvoiceNotFoundError)
            /\ UNCHANGED obj_tp_job_invoice
       ELSE LET invoice == obj_tp_job_invoice[invoice_uuid]
                table == [obj_tp_job_invoice EXCEPT ![invoice_uuid] =
                             [invoice EXCEPT !.status = "Archived",
                                             !.modified = now,
                                             !.modified_by = user_id]]
            IN  /\ obj_tp_job_invoice' = table
                /\ last' = Response("archive_invoice", invoice_uuid, "ok", FALSE,
                                    invoice.status,
                                    get_invoice(table, invoice_uuid), {})
    /\ UNCHANGED <<obj_tp_purchaseorder, po_path, call, requests, chain>>

archive_invoice(invoice_uuid, user_id, now) ==
    /\ IF ~LiveInvoice(obj_tp_job_invoice, invoice_uuid)
       THEN /\ last' = NotFound("archive_invoice", invoice_uuid, InvoiceNotFoundError)
            /\ UNCHANGED obj_tp_job_invoice
       ELSE LET invoice == obj_tp_job_invoice[invoice_uuid]
                table == [obj_tp_job_invoice EXCEPT ![invoice_uuid] =
                             [invoice EXCEPT !.deleted = True,
                                             !.status = "Archived",
                                             !.modified = now,
                                             !.modified_by = user_id]]
            IN  /\ obj_tp_job_invoice' = table
                /\ last' = Response("archive_invoice", invoice_uuid, "ok", FALSE,
                                    invoice.status,
                                    get_invoice(table, invoice_uuid), {})
    /\ UNCHANGED <<obj_tp_purchaseorder, po_path, call, requests, chain>>

\* restore_invoice clearing the flag and leaving the status as stored
restore_invoice_FlagOnly(invoice_uuid, user_id, now) ==
    /\ IF invoice_uuid \notin DOMAIN obj_tp_job_invoice
       THEN /\ last' = NotFound("restore_invoice", invoice_uuid, InvoiceNotFoundError)
            /\ UNCHANGED obj_tp_job_invoice
       ELSE LET invoice == obj_tp_job_invoice[invoice_uuid]
                table == [obj_tp_job_invoice EXCEPT ![invoice_uuid] =
                             [invoice EXCEPT
                                 !.deleted = False,
                                 !.modified = now,
                                 !.modified_by = user_id]]
            IN  /\ obj_tp_job_invoice' = table
                /\ last' = Response("restore_invoice", invoice_uuid, "ok", FALSE,
                                    invoice.status,
                                    get_invoice(table, invoice_uuid), {})
    /\ UNCHANGED <<obj_tp_purchaseorder, po_path, call, requests, chain>>

\* restore_invoice resetting the status whatever it was
restore_invoice_AlwaysDraft(invoice_uuid, user_id, now) ==
    /\ IF invoice_uuid \notin DOMAIN obj_tp_job_invoice
       THEN /\ last' = NotFound("restore_invoice", invoice_uuid, InvoiceNotFoundError)
            /\ UNCHANGED obj_tp_job_invoice
       ELSE LET invoice == obj_tp_job_invoice[invoice_uuid]
                table == [obj_tp_job_invoice EXCEPT ![invoice_uuid] =
                             [invoice EXCEPT
                                 !.deleted = False,
                                 !.status = "Draft",
                                 !.modified = now,
                                 !.modified_by = user_id]]
            IN  /\ obj_tp_job_invoice' = table
                /\ last' = Response("restore_invoice", invoice_uuid, "ok", FALSE,
                                    invoice.status,
                                    get_invoice(table, invoice_uuid), {})
    /\ UNCHANGED <<obj_tp_purchaseorder, po_path, call, requests, chain>>

restore_invoice(invoice_uuid, user_id, now) ==
    /\ IF invoice_uuid \notin DOMAIN obj_tp_job_invoice
       THEN /\ last' = NotFound("restore_invoice", invoice_uuid, InvoiceNotFoundError)
            /\ UNCHANGED obj_tp_job_invoice
       ELSE LET invoice == obj_tp_job_invoice[invoice_uuid]
                table == [obj_tp_job_invoice EXCEPT ![invoice_uuid] =
                             [invoice EXCEPT
                                 !.deleted = False,
                                 !.status = IF invoice.status = "Archived"
                                            THEN "Draft" ELSE invoice.status,
                                 !.modified = now,
                                 !.modified_by = user_id]]
            IN  /\ obj_tp_job_invoice' = table
                /\ last' = Response("restore_invoice", invoice_uuid, "ok", FALSE,
                                    invoice.status,
                                    get_invoice(table, invoice_uuid), {})
    /\ UNCHANGED <<obj_tp_purchaseorder, po_path, call, requests, chain>>

approve_invoice(invoice_uuid, user_id, now) ==
    /\ IF ~LiveInvoice(obj_tp_job_invoice, invoice_uuid)
       THEN /\ last' = NotFound("approve_invoice", invoice_uuid, InvoiceNotFoundError)
            /\ UNCHANGED obj_tp_job_invoice
       ELSE LET invoice == obj_tp_job_invoice[invoice_uuid]
                verdict == validate_invoice_status_transition(
                               OrDefault(invoice.status, "Draft"), "Approved")
                table == [obj_tp_job_invoice EXCEPT ![invoice_uuid] =
                             [invoice EXCEPT !.status = "Approved",
                                             !.modified = now,
                                             !.modified_by = user_id]]
            IN  IF verdict = InvalidStatusTransitionError
                THEN /\ last' = Response("approve_invoice", invoice_uuid,
                                         InvalidStatusTransitionError, TRUE,
                                         invoice.status, {}, {})
                     /\ UNCHANGED obj_tp_job_invoice
                ELSE /\ obj_tp_job_invoice' = table
                     /\ last' = Response("approve_invoice", invoice_uuid, "ok",
                                         TRUE, invoice.status,
                                         get_invoice(table, invoice_uuid), {})
    /\ UNCHANGED <<obj_tp_purchaseorder, po_path, call, requests, chain>>

----------------------------------------------------------------------------
(* PurchaseOrderService *)

PurchaseOrderNotFoundError == "PurchaseOrderNotFoundError"

\* select(PurchaseOrder).where(obj_uuid == po_uuid, is_deleted != True)
LivePurchaseOrder(table, po_uuid) ==
    po_uuid \in DOMAIN table /\ table[po_uuid].is_deleted # True

get_purchase_order(table, po_uuid) ==
    IF LivePurchaseOrder(table, po_uuid) THEN {table[po_uuid]} ELSE {}

create_purchase_order(new_uuid, po_data, user_id, now) ==
    /\ Fresh(new_uuid)
    /\ LET po_dict == ("modified" :> now) @@ po_data
           po == NewPurchaseOrder(po_dict)
           table == (new_uuid :> po) @@ obj_tp_purchaseorder
       IN  /\ obj_tp_purchaseorder' = table
           /\ po_path' = (new_uuid :> NewPath(po.status)) @@ po_path
           /\ last' = Response("create_purchase_order", new_uuid, "ok", FALSE,
                               None, get_purchase_order(table, new_uuid),
                               DOMAIN po_data)
    /\ UNCHANGED <<obj_tp_job_invoice, call, requests, chain>>

get_purchase_order_or_404(po_uuid) ==
    /\ IF ~LivePurchaseOrder(obj_tp_purchaseorder, po_uuid)
       THEN last' = NotFound("get_purchase_order_or_404", po_uuid,
                             PurchaseOrderNotFoundError)
       ELSE last' = Response("get_purchase_order_or_404", po_uuid, "ok", FALSE,
                             obj_tp_purchaseorder[po_uuid].status,
                             get_purchase_order(obj_tp_purchaseorder, po_uuid),
                             {})
    /\ UNCHANGED <<obj_tp_job_invoice, obj_tp_purchaseorder, po_path, call, requests, chain>>

update_purchase_order(po_uuid, po_data, user_id, now) ==
    /\ IF ~LivePurchaseOrder(obj_tp_purchaseorder, po_uuid)
       THEN /\ last' = NotFound("update_purchase_order", po_uuid,
                                PurchaseOrderNotFoundError)
            /\ UNCHANGED <<obj_tp_purchaseorder, po_path>>
       ELSE LET po == obj_tp_purchaseorder[po_uuid]
                update_data == ("modified" :> now) @@ po_data
                validated == "status" \in DOMAIN update_data /\ Truthy(po.status)
                verdict == IF validated
                           THEN validate_po_status_transition(
                                    po.status, update_data["status"])
                           ELSE "True"
                updated == SetAttrs(po, update_data)
                table == [obj_tp_purchaseorder EXCEPT ![po_uuid] = updated]
            IN  IF verdict = InvalidStatusTransitionError
                THEN /\ last' = Response("update_purchase_order", po_uuid,
                                         InvalidStatusTransitionError, validated,
                                         po.status, {}, DOMAIN po_data)
                     /\ UNCHANGED <<obj_tp_purchaseorder, po_path>>
                ELSE /\ obj_tp_purchaseorder' = table
                     /\ po_path' = [po_path EXCEPT ![po_uuid] =
                                       TrackUpdate(@, update_data, updated.status)]
                     /\ last' = Response("update_purchase_order", po_uuid, "ok",
                                         validated, po.status,
                                         get_purchase_order(table, po_uuid),
                                         DOMAIN po_data)
    /\ UNCHANGED <<obj_tp_job_invoice, call, requests, chain>>

\* delete_purchase_order removing the row
delete_purchase_order_Hard(po_uuid, user_id, now) ==
    /\ IF ~LivePurchaseOrder(obj_tp_purchaseorder, po_uuid)
       THEN /\ last' = NotFound("delete_purchase_order", po_uuid,
                                PurchaseOrderNotFoundError)
            /\ UNCHANGED <<obj_tp_purchaseorder, po_path>>
       ELSE LET po == obj_tp_purchaseorder[po_uuid]
                kept == DOMAIN obj_tp_purchaseorder \ {po_uuid}
            IN  /\ obj_tp_purchaseorder' =
                       [uuid \in kept |-> obj_tp_purchaseorder[uuid]]
                /\ po_path' = [uuid \in kept |-> po_path[uuid]]
                /\ last' = Response("delete_purchase_order", po_uuid, "ok", FALSE,
                                    po.status, {}, {})
    /\ UNCHANGED <<obj_tp_job_invoice, call, requests, chain>>

delete_purchase_order(po_uuid, user_id, now) ==
    /\ IF ~LivePurchaseOrder(obj_tp_purchaseorder, po_uuid)
       THEN /\ last' = NotFound("delete_purchase_order", po_uuid,
                                PurchaseOrderNotFoundError)
            /\ UNCHANGED <<obj_tp_purchaseorder, po_path>>
       ELSE LET po == obj_tp_purchaseorder[po_uuid]
            IN  /\ obj_tp_purchaseorder' =
                       [obj_tp_purchaseorder EXCEPT ![po_uuid] =
                           [po EXCEPT !.is_deleted = True, !.modified = now]]
                /\ po_path' = [po_path EXCEPT ![po_uuid] = TrackOther(@)]
                /\ last' = Response("delete_purchase_order", po_uuid, "ok", FALSE,
                                    po.status, {}, {})
    /\ UNCHANGED <<obj_tp_job_invoice, call, requests, chain>>

\* archive_purchase_order setting the flag and leaving the status
archive_purchase_order_FlagOnly(po_uuid, user_id, now) ==
    /\ IF ~LivePurchaseOrder(obj_tp_purchaseorder, po_uuid)
       THEN /\ last' = NotFound("archive_purchase_order", po_uuid,
                                PurchaseOrderNotFoundError)
            /\ UNCHANGED <<obj_tp_purchaseorder, po_path>>
       ELSE LET po == obj_tp_purchaseorder[po_uuid]
                table == [obj_tp_purchaseorder EXCEPT ![po_uuid] =
                             [po EXCEPT !.is_deleted = True,
                                        !.modified = now]]
            IN  /\ obj_tp_purchaseorder' = table
                /\ po_path' = [po_path EXCEPT ![po_uuid] = TrackOther(@)]
                /\ last' = Response("archive_purchase_order", po_uuid, "ok", FALSE,
                                    po.status, get_purchase_order(table, po_uuid),
                                    {})
    /\ UNCHANGED <<obj_tp_job_invoice, call, requests, chain>>

archive_purchase_order(po_uuid, user_id, now) ==
    /\ IF ~LivePurchaseOrder(obj_tp_purchaseorder, po_uuid)
       THEN /\ last' = NotFound("archive_purchase_order", po_uuid,
                                PurchaseOrderNotFoundError)
            /\ UNCHANGED <<obj_tp_purchaseorder, po_path>>
       ELSE LET po == obj_tp_purchaseorder[po_uuid]
                table == [obj_tp_purchaseorder EXCEPT ![po_uuid] =
                             [po EXCEPT !.is_deleted = True,
                                        !.status = "Archived",
                                        !.modified = now]]
            IN  /\ obj_tp_purchaseorder' = table
                /\ po_path' = [po_path EXCEPT ![po_uuid] = TrackOther(@)]
                /\ last' = Response("archive_purchase_order", po_uuid, "ok", FALSE,
                                    po.status, get_purchase_order(table, po_uuid),
                                    {})
    /\ UNCHANGED <<obj_tp_job_invoice, call, requests, chain>>

\* restore_purchase_order resetting an archived order to the invoice default
restore_purchase_order_ToDraft(po_uuid, user_id, now) ==
    /\ IF po_uuid \notin DOMAIN obj_tp_purchaseorder
       THEN /\ last' = NotFound("restore_purchase_order", po_uuid,
                                PurchaseOrderNotFoundError)
            /\ UNCHANGED <<obj_tp_purchaseorder, po_path>>
       ELSE LET po == obj_tp_purchaseorder[po_uuid]
                table == [obj_tp_purchaseorder EXCEPT ![po_uuid] =
                             [po EXCEPT
                                 !.is_deleted = False,
                                 !.status = IF po.status = "Archived"
                                            THEN "Draft" ELSE po.status,
                                 !.modified = now]]
            IN  /\ obj_tp_purchaseorder' = table
                /\ po_path' = [po_path EXCEPT ![po_uuid] = TrackOther(@)]
                /\ last' = Response("restore_purchase_order", po_uuid, "ok", FALSE,
                                    po.status, get_purchase_order(table, po_uuid),
                                    {})
    /\ UNCHANGED <<obj_tp_job_invoice, call, requests, chain>>

restore_purchase_order(po_uuid, user_id, now) ==
    /\ IF po_uuid \notin DOMAIN obj_tp_purchaseorder
       THEN /\ last' = NotFound("restore_purchase_order", po_uuid,
                                PurchaseOrderNotFoundError)
            /\ UNCHANGED <<obj_tp_purchaseorder, po_path>>
       ELSE LET po == obj_tp_purchaseorder[po_uuid]
                table == [obj_tp_purchaseorder EXCEPT ![po_uuid] =
                             [po EXCEPT
                                 !.is_deleted = False,
                                 !.status = IF po.status = "Archived"
                                            THEN "Pending" ELSE po.status,
                                 !.modified = now]]
            IN  /\ obj_tp_purchaseorder' = table
                /\ po_path' = [po_path EXCEPT ![po_uuid] = TrackOther(@)]
                /\ last' = Response("restore_purchase_order", po_uuid, "ok", FALSE,
                                    po.status, get_purchase_order(table, po_uuid),
                                    {})
    /\ UNCHANGED <<obj_tp_job_invoice, call, requests, chain>>

\* approve_purchase_order writing the status without the approval fields
approve_purchase_order_StatusOnly(po_uuid, user_id, now) ==
    /\ IF ~LivePurchaseOrder(obj_tp_purchaseorder, po_uuid)
       THEN /\ last' = NotFound("approve_purchase_order", po_uuid,
                                PurchaseOrderNotFoundError)
            /\ UNCHANGED <<obj_tp_purchaseorder, po_path>>
       ELSE LET po == obj_tp_purchaseorder[po_uuid]
                verdict == validate_po_status_transition(
                               OrDefault(po.status, "Pending"), "Approved")
                table == [obj_tp_purchaseorder EXCEPT ![po_uuid] =
                             [po EXCEPT !.status = "Approved",
                                        !.modified = now]]
            IN  IF verdict = InvalidStatusTransitionError
                THEN /\ last' = Response("approve_purchase_order", po_uuid,
                                         InvalidStatusTransitionError, TRUE,
                                         po.status, {}, {})
                     /\ UNCHANGED <<obj_tp_purchaseorder, po_path>>
                ELSE /\ obj_tp_purchaseorder' = table
                     /\ po_path' = [po_path EXCEPT ![po_uuid] =
                                       Advance(@, "Approved")]
                     /\ last' = Response("approve_purchase_order", po_uuid, "ok",
                                         TRUE, po.status,
                                         get_purchase_order(table, po_uuid), {})
    /\ UNCHANGED <<obj_tp_job_invoice, call, requests, chain>>

approve_purchase_order(po_uuid, user_id, now) ==
    /\ IF ~LivePurchaseOrder(obj_tp_purchaseorder, po_uuid)
       THEN /\ last' = NotFound("approve_purchase_order", po_uuid,
                                PurchaseOrderNotFoundError)
            /\ UNCHANGED <<obj_tp_purchaseorder, po_path>>
       ELSE LET po == obj_tp_purchaseorder[po_uuid]
                verdict == validate_po_status_transition(
                               OrDefault(po.status, "Pending"), "Approved")
                table == [obj_tp_purchaseorder EXCEPT ![po_uuid] =
                             [po EXCEPT !.approvedforpayment = "1",
                                        !.approveddate = now,
                                        !.status = "Approved",
                                        !.modified = now]]
            IN  IF verdict = InvalidStatusTransitionError
                THEN /\ last' = Response("approve_purchase_order", po_uuid,
                                         InvalidStatusTransitionError, TRUE,
                                         po.status, {}, {})
                     /\ UNCHANGED <<obj_tp_purchaseorder, po_path>>
                ELSE /\ obj_tp_purchaseorder' = table
                     /\ po_path' = [po_path EXCEPT ![po_uuid] =
                                       Advance(@, "Approved")]
                     /\ last' = Response("approve_purchase_order", po_uuid, "ok",
                                         TRUE, po.status,
                                         get_purchase_order(table, po_uuid), {})
    /\ UNCHANGED <<obj_tp_job_invoice, call, requests, chain>>

----------------------------------------------------------------------------
(* SalesOrderService *)

SalesOrderNotFoundError == "SalesOrderNotFoundError"

\* the sales-order filter without the invoice_type condition
LiveSalesOrder_AnyType(table, so_uuid) ==
    /\ so_uuid \in DOMAIN table
    /\ table[so_uuid].deleted # True

\* the sales-order filter without the deleted condition
LiveSalesOrder_IgnoresDeleted(table, so_uuid) ==
    /\ so_uuid \in DOMAIN table
    /\ InList(table[so_uuid].invoice_type, <<"Pro Forma", "Sales Order">>)

\* select(Invoice).where(obj_uuid == so_uuid, deleted != True,
\*                       invoice_type.in_(["Pro Forma", "Sales Order"]))
LiveSalesOrder(table, so_uuid) ==
    /\ so_uuid \in DOMAIN table
    /\ table[so_uuid].deleted # True
    /\ InList(table[so_uuid].invoice_type, <<"Pro Forma", "Sales Order">>)

get_sales_order(table, so_uuid) ==
    IF LiveSalesOrder(table, so_uuid) THEN {table[so_uuid]} ELSE {}

create_sales_order(new_uuid, so_data, user_id, now) ==
    /\ Fresh(new_uuid)
    /\ LET so_dict == ("modified" :> now)
                      @@ (IF "status" \in DOMAIN so_data THEN <<>>
                          ELSE ("status" :> "Draft"))
                      @@ (IF "invoice_type" \notin DOMAIN so_data
                             \/ ~Truthy(so_data["invoice_type"])
                          THEN ("invoice_type" :> "Pro Forma") ELSE <<>>)
                      @@ so_data
           table == (new_uuid :> NewInvoice(so_dict)) @@ obj_tp_job_invoice
       IN  /\ obj_tp_job_invoice' = table
           /\ last' = Response("create_sales_order", new_uuid, "ok", FALSE, None,
                               get_sales_order(table, new_uuid), DOMAIN so_data)
    /\ UNCHANGED <<obj_tp_purchaseorder, po_path, call, requests, chain>>

get_sales_order_or_404(so_uuid) ==
    /\ IF ~LiveSalesOrder(obj_tp_job_invoice, so_uuid)
       THEN last' = NotFound("get_sales_order_or_404", so_uuid,
                             SalesOrderNotFoundError)
       ELSE last' = Response("get_sales_order_or_404", so_uuid, "ok", FALSE,
                             obj_tp_job_invoice[so_uuid].status,
                             get_sales_order(obj_tp_job_invoice, so_uuid), {})
    /\ UNCHANGED <<obj_tp_job_invoice, obj_tp_purchaseorder, po_path, call, requests, chain>>

update_sales_order(so_uuid, so_data, user_id, now) ==
    /\ IF ~LiveSalesOrder(obj_tp_job_invoice, so_uuid)
       THEN /\ last' = NotFound("update_sales_order", so_uuid,
                                SalesOrderNotFoundError)
            /\ UNCHANGED obj_tp_job_invoice
       ELSE LET invoice == obj_tp_job_invoice[so_uuid]
                update_data == ("modified" :> now) @@ ("modified_by" :> user_id)
                               @@ so_data
                table == [obj_tp_job_invoice EXCEPT
                             ![so_uuid] = SetAttrs(invoice, update_data)]
            IN  /\ obj_tp_job_invoice' = table
                /\ last' = Response("update_sales_order", so_uuid, "ok", FALSE,
                                    invoice.status,
                                    get_sales_order(table, so_uuid),
                                    DOMAIN so_data)
    /\ UNCHANGED <<obj_tp_purchaseorder, po_path, call, requests, chain>>

\* delete_sales_order cancelling the order as it deletes it
delete_sales_order_Cancels(so_uuid, user_id, now) ==
    /\ IF ~LiveSalesOrder(obj_tp_job_invoice, so_uuid)
       THEN /\ last' = NotFound("delete_sales_order", so_uuid,
                                SalesOrderNotFoundError)
            /\ UNCHANGED obj_tp_job_invoice
       ELSE LET invoice == obj_tp_job_invoice[so_uuid]
            IN  /\ obj_tp_job_invoice' =
                       [obj_tp_job_invoice EXCEPT ![so_uuid] =
                           [invoice EXCEPT !.deleted = True,
                                           !.status = "Cancelled",
                                           !.modified = now,
                                           !.modified_by = user_id]]
                /\ last' = Response("delete_sales_order", so_uuid, "ok", FALSE,
                                    invoice.status, {}, {})
    /\ UNCHANGED <<obj_tp_purchaseorder, po_path, call, requests, chain>>

delete_sales_order(so_uuid, user_id, now) ==
    /\ IF ~LiveSalesOrder(obj_tp_job_invoice, so_uuid)
       THEN /\ last' = NotFound("delete_sales_order", so_uuid,
                                SalesOrderNotFoundError)
            /\ UNCHANGED obj_tp_job_invoice
       ELSE LET invoice == obj_tp_job_invoice[so_uuid]
            IN  /\ obj_tp_job_invoice' =
                       [obj_tp_job_invoice EXCEPT ![so_uuid] =
                           [invoice EXCEPT !.deleted = True,
                                           !.modified = now,
                                           !.modified_by = user_id]]
                /\ last' = Response("delete_sales_order", so_uuid, "ok", FALSE,
                                    invoice.status, {}, {})
    /\ UNCHANGED <<obj_tp_purchaseorder, po_path, call, requests, chain>>

\* transform_to_invoice asking the invoice validator for the move to "Draft"
transform_to_invoice_Validated(so_uuid, transform_data, user_id, now) ==
    /\ IF ~LiveSalesOrder(obj_tp_job_invoice, so_uuid)
       THEN /\ last' = NotFound("transform_to_invoice", so_uuid,
                                SalesOrderNotFoundError)
            /\ UNCHANGED obj_tp_job_invoice
       ELSE LET invoice == obj_tp_job_invoice[so_uuid]
                verdict == validate_invoice_status_transition(
                               OrDefault(invoice.status, "Draft"), "Draft")
                table == [obj_tp_job_invoice EXCEPT ![so_uuid] =
                             [invoice EXCEPT
                                 !.invoice_type =
                                     OrDefault(transform_data.invoice_type,
                                               "Tax Invoice"),
                                 !.status = "Draft",
                                 !.modified = now,
                                 !.modified_by = user_id]]
            IN  IF verdict = InvalidStatusTransitionError
                THEN /\ last' = Response("transform_to_invoice", so_uuid,
                                         InvalidStatusTransitionError, TRUE,
                                         invoice.status, {}, {})
                     /\ UNCHANGED obj_tp_job_invoice
                ELSE /\ obj_tp_job_invoice' = table
                     /\ last' = Response("transform_to_invoice", so_uuid, "ok",
                                         TRUE, invoice.status,
                                         get_sales_order(table, so_uuid), {})
    /\ UNCHANGED <<obj_tp_purchaseorder, po_path, call, requests, chain>>

transform_to_invoice(so_uuid, transform_data, user_id, now) ==
    /\ IF ~LiveSalesOrder(obj_tp_job_invoice, so_uuid)
       THEN /\ last' = NotFound("transform_to_invoice", so_uuid,
                                SalesOrderNotFoundError)
            /\ UNCHANGED obj_tp_job_invoice
       ELSE LET invoice == obj_tp_job_invoice[so_uuid]
                table == [obj_tp_job_invoice EXCEPT ![so_uuid] =
                             [invoice EXCEPT
                                 !.invoice_type =
                                     OrDefault(transform_data.invoice_type,
                                               "Tax Invoice"),
                                 !.status = "Draft",
                                 !.modified = now,
                                 !.modified_by = user_id]]
            IN  /\ obj_tp_job_invoice' = table
                /\ last' = Response("transform_to_invoice", so_uuid, "ok", FALSE,
                                    invoice.status,
                                    get_sales_order(table, so_uuid), {})
    /\ UNCHANGED <<obj_tp_purchaseorder, po_path, call, requests, chain>>

\* cancel_sales_order writing the note over the notes
cancel_sales_order_ReplacesNotes(so_uuid, cancel_data, user_id, now) ==
    /\ IF ~LiveSalesOrder(obj_tp_job_invoice, so_uuid)
       THEN /\ last' = NotFound("cancel_sales_order", so_uuid,
                                SalesOrderNotFoundError)
            /\ UNCHANGED obj_tp_job_invoice
       ELSE LET invoice == obj_tp_job_invoice[so_uuid]
                reason == cancel_data.reason
                table == [obj_tp_job_invoice EXCEPT ![so_uuid] =
                             [invoice EXCEPT
                                 !.status = "Cancelled",
                                 !.notes = IF Truthy(reason)
                                           THEN "\n[Cancelled: " \o reason \o "]"
                                           ELSE invoice.notes,
                                 !.modified = now,
                                 !.modified_by = user_id]]
            IN  /\ obj_tp_job_invoice' = table
                /\ last' = Response("cancel_sales_order", so_uuid, "ok", FALSE,
                                    invoice.status,
                                    get_sales_order(table, so_uuid), {})
    /\ UNCHANGED <<obj_tp_purchaseorder, po_path, call, requests, chain>>

cancel_sales_order(so_uuid, cancel_data, user_id, now) ==
    /\ IF ~LiveSalesOrder(obj_tp_job_invoice, so_uuid)
       THEN /\ last' = NotFound("cancel_sales_order", so_uuid,
                                SalesOrderNotFoundError)
            /\ UNCHANGED obj_tp_job_invoice
       ELSE LET invoice == obj_tp_job_invoice[so_uuid]
                reason == cancel_data.reason
                table == [obj_tp_job_invoice EXCEPT ![so_uuid] =
                             [invoice EXCEPT
                                 !.status = "Cancelled",
                                 !.notes = IF Truthy(reason)
                                           THEN OrDefault(invoice.notes, "")
                                                \o "\n[Cancelled: " \o reason
                                                \o "]"
                                           ELSE invoice.notes,
                                 !.modified = now,
                                 !.modified_by = user_id]]
            IN  /\ obj_tp_job_invoice' = table
                /\ last' = Response("cancel_sales_order", so_uuid, "ok", FALSE,
                                    invoice.status,
                                    get_sales_order(table, so_uuid), {})
    /\ UNCHANGED <<obj_tp_purchaseorder, po_path, call, requests, chain>>

----------------------------------------------------------------------------
(* Batch operations *)

AttributeError == "AttributeError"

\* the methods class InvoiceService defines
InvoiceServiceMethods ==
    {"create_invoice", "get_invoice", "get_invoice_or_404", "update_invoice",
     "delete_invoice", "archive_invoice", "restore_invoice", "approve_invoice",
     "list_invoices", "list_invoice_items", "create_invoice_item",
     "get_invoice_item", "get_invoice_item_or_404", "update_invoice_item",
     "delete_invoice_item", "batch_approve_purchase_orders",
     "batch_delete_purchase_orders", "create_invoice_group",
     "get_invoice_group", "get_invoice_group_or_404",
     "get_invoice_group_with_invoices", "update_invoice_group",
     "delete_invoice_group", "add_invoice_to_group",
     "remove_invoice_from_group", "list_invoice_groups"}

\* self.<method> inside a method of InvoiceService: the attribute lookup
\* raises AttributeError for a name the class does not define, before any
\* call is made.  approve_purchase_order and delete_purchase_order are
\* methods of PurchaseOrderService.
SelfLookup(method) ==
    IF method \in InvoiceServiceMethods THEN "found" ELSE AttributeError

NoResults == [results |-> <<>>, success_count |-> 0, failure_count |-> 0]

\* the try/except of one pass of the loop
BatchItem(acc, method, po_uuid) ==
    IF SelfLookup(method) = AttributeError
    THEN [results |-> Append(acc.results,
                             [po_uuid |-> po_uuid, status |-> "failed",
                              error |-> AttributeError]),
          success_count |-> acc.success_count,
          failure_count |-> acc.failure_count + 1]
    ELSE [results |-> Append(acc.results,
                             [po_uuid |-> po_uuid, status |-> "success",
                              error |-> None]),
          success_count |-> acc.success_count + 1,
          failure_count |-> acc.failure_count]

\* the loop giving up at the first item that fails
RECURSIVE BatchLoop_StopAtFailure(_, _, _)
BatchLoop_StopAtFailure(acc, method, po_uuids) ==
    IF po_uuids = <<>> \/ acc.failure_count > 0
    THEN acc
    ELSE BatchLoop_StopAtFailure(BatchItem(acc, method, Head(po_uuids)), method,
                                 Tail(po_uuids))

\* for po_uuid in po_uuids: ...
RECURSIVE BatchLoop(_, _, _)
BatchLoop(acc, method, po_uuids) ==
    IF po_uuids = <<>>
    THEN acc
    ELSE BatchLoop(BatchItem(acc, method, Head(po_uuids)), method,
                   Tail(po_uuids))

\* No item reaches a PurchaseOrderService method, so no row is written.
batch_approve_purchase_orders(po_uuids, user_id, now) ==
    /\ last' = Response("batch_approve_purchase_orders", None, "ok", FALSE,
                        None,
                        {BatchLoop(NoResults, "approve_purchase_order", po_uuids)},
                        {})
    /\ UNCHANGED <<obj_tp_job_invoice, obj_tp_purchaseorder, po_path, call, requests, chain>>

batch_delete_purchase_orders(po_uuids, user_id, now) ==
    /\ last' = Response("batch_delete_purchase_orders", None, "ok", FALSE,
                        None,
                        {BatchLoop(NoResults, "delete_purchase_order", po_uuids)},
                        {})
    /\ UNCHANGED <<obj_tp_job_invoice, obj_tp_purchaseorder, po_path, call, requests, chain>>

----------------------------------------------------------------------------
(* Updates of one document by two requests at a time *)

\* Each request runs update_invoice or update_purchase_order in a session of
\* its own.  The method gives up control at its awaits: once the select has
\* returned the row (load), and once after the validator and the setattr
\* loop, in commit.
RequestIds == {"request-1", "request-2"}

NoRequest ==
    [pc |-> "idle", kind |-> "none", uuid |-> None, update_data |-> {},
     loaded |-> {}, outcome |-> "none"]

NoRequests == [r \in RequestIds |-> NoRequest]

\* The update requests in flight set the status alone, to a member of the
\* enumeration.
InvoiceStatusRequests ==
    {data \in InvoiceUpdateRequests :
        DOMAIN data = {"status"} /\ data["status"] \in InvoiceStatus}

PurchaseOrderStatusRequests ==
    {data \in PurchaseOrderUpdateRequests :
        DOMAIN data = {"status"} /\ data["status"] \in POStatus}

\* a commit that writes every assigned attribute if the row is still as it
\* was loaded, and nothing otherwise
Flush_IfUnchanged(row, loaded, update_data) ==
    IF row = loaded THEN SetAttrs(row, update_data) ELSE row

\* commit: the session writes the attributes whose assigned value differs
\* from the value it loaded (UPDATE ... WHERE obj_uuid = ...), over whatever
\* the row holds by then
Flush(row, loaded, update_data) ==
    [key \in DOMAIN row |->
        IF key \in DOMAIN update_data /\ update_data[key] # loaded[key]
        THEN update_data[key] ELSE row[key]]

load_invoice(r, invoice_uuid, invoice_data) ==
    /\ requests[r].pc = "idle"
    /\ IF ~LiveInvoice(obj_tp_job_invoice, invoice_uuid)
       THEN requests' = [requests EXCEPT ![r] =
                [NoRequest EXCEPT !.pc = "done", !.kind = "invoice",
                                  !.uuid = invoice_uuid,
                                  !.outcome = InvoiceNotFoundError]]
       ELSE requests' = [requests EXCEPT ![r] =
                [pc |-> "loaded", kind |-> "invoice", uuid |-> invoice_uuid,
                 update_data |-> {invoice_data},
                 loaded |-> {obj_tp_job_invoice[invoice_uuid]},
                 outcome |-> "none"]]
    /\ UNCHANGED <<obj_tp_job_invoice, obj_tp_purchaseorder, last, po_path, call, chain>>

commit_invoice(r, user_id, now) ==
    /\ requests[r].pc = "loaded"
    /\ requests[r].kind = "invoice"
    /\ \E invoice \in requests[r].loaded, invoice_data \in requests[r].update_data :
        LET invoice_uuid == requests[r].uuid
            update_data == ("modified" :> now) @@ ("modified_by" :> user_id)
                           @@ invoice_data
            validated == "status" \in DOMAIN update_data /\ Truthy(invoice.status)
            verdict == IF validated
                       THEN validate_invoice_status_transition(
                                invoice.status, update_data["status"])
                       ELSE "True"
            table == [obj_tp_job_invoice EXCEPT ![invoice_uuid] =
                         Flush(@, invoice, update_data)]
        IN  IF verdict = InvalidStatusTransitionError
            THEN /\ last' = Response("update_invoice", invoice_uuid,
                                     InvalidStatusTransitionError, validated,
                                     invoice.status, {}, DOMAIN invoice_data)
                 /\ requests' = [requests EXCEPT
                                    ![r].pc = "done",
                                    ![r].outcome = InvalidStatusTransitionError]
                 /\ UNCHANGED obj_tp_job_invoice
            ELSE /\ obj_tp_job_invoice' = table
                 /\ last' = Response("update_invoice", invoice_uuid, "ok",
                                     validated, invoice.status,
                                     get_invoice(table, invoice_uuid),
                                     DOMAIN invoice_data)
                 /\ requests' = [requests EXCEPT ![r].pc = "done",
                                                 ![r].outcome = "ok"]
    /\ UNCHANGED <<obj_tp_purchaseorder, po_path, call, chain>>

load_purchase_order(r, po_uuid, po_data) ==
    /\ requests[r].pc = "idle"
    /\ IF ~LivePurchaseOrder(obj_tp_purchaseorder, po_uuid)
       THEN requests' = [requests EXCEPT ![r] =
                [NoRequest EXCEPT !.pc = "done", !.kind = "po",
                                  !.uuid = po_uuid,
                                  !.outcome = PurchaseOrderNotFoundError]]
       ELSE requests' = [requests EXCEPT ![r] =
                [pc |-> "loaded", kind |-> "po", uuid |-> po_uuid,
                 update_data |-> {po_data},
                 loaded |-> {obj_tp_purchaseorder[po_uuid]},
                 outcome |-> "none"]]
    /\ UNCHANGED <<obj_tp_job_invoice, obj_tp_purchaseorder, last, po_path, call, chain>>

commit_purchase_order(r, user_id, now) ==
    /\ requests[r].pc = "loaded"
    /\ requests[r].kind = "po"
    /\ \E po \in requests[r].loaded, po_data \in requests[r].update_data :
        LET po_uuid == requests[r].uuid
            update_data == ("modified" :> now) @@ po_data
            validated == "status" \in DOMAIN update_data /\ Truthy(po.status)
            verdict == IF validated
                       THEN validate_po_status_transition(
                                po.status, update_data["status"])
                       ELSE "True"
            table == [obj_tp_purchaseorder EXCEPT ![po_uuid] =
                         Flush(@, po, update_data)]
        IN  IF verdict = InvalidStatusTransitionError
            THEN /\ last' = Response("update_purchase_order", po_uuid,
                                     InvalidStatusTransitionError, validated,
                                     po.status, {}, DOMAIN po_data)
                 /\ requests' = [requests EXCEPT
                                    ![r].pc = "done",
                                    ![r].outcome = InvalidStatusTransitionError]
                 /\ UNCHANGED <<obj_tp_purchaseorder, po_path>>
            ELSE /\ obj_tp_purchaseorder' = table
                 /\ po_path' = [po_path EXCEPT ![po_uuid] = TrackOther(@)]
                 /\ last' = Response("update_purchase_order", po_uuid, "ok",
                                     validated, po.status,
                                     get_purchase_order(table, po_uuid),
                                     DOMAIN po_data)
                 /\ requests' = [requests EXCEPT ![r].pc = "done",
                                                 ![r].outcome = "ok"]
    /\ UNCHANGED <<obj_tp_job_invoice, call, chain>>

----------------------------------------------------------------------------
(* Specifications *)

EmptyTable == [uuid \in {} |-> None]

\* The service on an empty store
Init ==
    /\ obj_tp_job_invoice = EmptyTable
    /\ obj_tp_purchaseorder = EmptyTable
    /\ po_path = EmptyTable
    /\ last = NoResponse
    /\ call = NoCall
    /\ requests = NoRequests
    /\ chain = NoChain

CreateInvoice ==
    \E uuid \in Uuids, data \in InvoiceCreateRequests, user \in Users, now \in Times :
        create_invoice(uuid, data, user, now)

UpdateInvoice ==
    \E uuid \in Uuids, data \in InvoiceUpdateRequests, user \in Users, now \in Times :
        update_invoice(uuid, data, user, now)

DeleteInvoice ==
    \E uuid \in Uuids, user \in Users, now \in Times :
        delete_invoice(uuid, user, now)

ArchiveInvoice ==
    \E uuid \in Uuids, user \in Users, now \in Times :
        archive_invoice(uuid, user, now)

RestoreInvoice ==
    \E uuid \in Uuids, user \in Users, now \in Times :
        restore_invoice(uuid, user, now)

ApproveInvoice ==
    \E uuid \in Uuids, user \in Users, now \in Times :
        approve_invoice(uuid, user, now)

CreatePurchaseOrder ==
    \E uuid \in Uuids, data \in PurchaseOrderCreateRequests, user \in Users,
       now \in Times :
        create_purchase_order(uuid, data, user, now)

UpdatePurchaseOrder ==
    \E uuid \in Uuids, data \in PurchaseOrderUpdateRequests, user \in Users,
       now \in Times :
        update_purchase_order(uuid, data, user, now)

DeletePurchaseOrder ==
    \E uuid \in Uuids, user \in Users, now \in Times :
        delete_purchase_order(uuid, user, now)

ArchivePurchaseOrder ==
    \E uuid \in Uuids, user \in Users, now \in Times :
        archive_purchase_order(uuid, user, now)

RestorePurchaseOrder ==
    \E uuid \in Uuids, user \in Users, now \in Times :
        restore_purchase_order(uuid, user, now)

ApprovePurchaseOrder ==
    \E uuid \in Uuids, user \in Users, now \in Times :
        approve_purchase_order(uuid, user, now)

GetInvoice == \E uuid \in Uuids : get_invoice_or_404(uuid)

GetPurchaseOrder == \E uuid \in Uuids : get_purchase_order_or_404(uuid)

CreateSalesOrder ==
    \E uuid \in Uuids, data \in SalesOrderCreateRequests, user \in Users,
       now \in Times :
        create_sales_order(uuid, data, user, now)

GetSalesOrder == \E uuid \in Uuids : get_sales_order_or_404(uuid)

UpdateSalesOrder ==
    \E uuid \in Uuids, data \in SalesOrderUpdateRequests, user \in Users,
       now \in Times :
        update_sales_order(uuid, data, user, now)

DeleteSalesOrder ==
    \E uuid \in Uuids, user \in Users, now \in Times :
        delete_sales_order(uuid, user, now)

TransformToInvoice ==
    \E uuid \in Uuids, data \in TransformToInvoiceRequests, user \in Users,
       now \in Times :
        transform_to_invoice(uuid, data, user, now)

\* the notes a cancellation may still be appended to
MaxNotesLen == 4

NotesLen(uuid) ==
    IF uuid \in DOMAIN obj_tp_job_invoice
    THEN Len(OrDefault(obj_tp_job_invoice[uuid].notes, ""))
    ELSE 0

CancelSalesOrder ==
    \E uuid \in Uuids, data \in CancelSalesOrderRequests, user \in Users,
       now \in Times :
        /\ Truthy(data.reason) => NotesLen(uuid) <= MaxNotesLen
        /\ cancel_sales_order(uuid, data, user, now)

\* the identifier lists a batch call is given: of a stored order or of none
MaxBatch == 2

BatchUuids == Uuids \cup {"UUID-5678"}

BatchLists == UNION {[1..n -> BatchUuids] : n \in 0..MaxBatch}

BatchApprovePurchaseOrders ==
    \E po_uuids \in BatchLists, user \in Users, now \in Times :
        batch_approve_purchase_orders(po_uuids, user, now)

BatchDeletePurchaseOrders ==
    \E po_uuids \in BatchLists, user \in Users, now \in Times :
        batch_delete_purchase_orders(po_uuids, user, now)

Next ==
    \/ CreateInvoice
    \/ UpdateInvoice
    \/ DeleteInvoice
    \/ ArchiveInvoice
    \/ RestoreInvoice
    \/ ApproveInvoice
    \/ CreatePurchaseOrder
    \/ UpdatePurchaseOrder
    \/ DeletePurchaseOrder
    \/ ArchivePurchaseOrder
    \/ RestorePurchaseOrder
    \/ ApprovePurchaseOrder

Spec == Init /\ [][Next]_vars

\* The sales-order service on an empty store
NextSalesOrder ==
    \/ CreateSalesOrder
    \/ GetSalesOrder
    \/ UpdateSalesOrder
    \/ DeleteSalesOrder
    \/ TransformToInvoice
    \/ CancelSalesOrder

SpecSalesOrder == Init /\ [][NextSalesOrder]_vars

\* Purchase orders created in any status, the two calls a batch is made
\* of, and the batches
NextBatch ==
    \/ CreatePurchaseOrder
    \/ DeletePurchaseOrder
    \/ ApprovePurchaseOrder
    \/ BatchApprovePurchaseOrders
    \/ BatchDeletePurchaseOrders

SpecBatch == Init /\ [][NextBatch]_vars

\* The three services with their reads
NextDocuments ==
    \/ Next
    \/ GetInvoice
    \/ GetPurchaseOrder
    \/ NextSalesOrder

SpecDocuments == Init /\ [][NextDocuments]_vars

\* Every call of the three services that writes, and the batches
NextWrites ==
    \/ Next
    \/ CreateSalesOrder
    \/ UpdateSalesOrder
    \/ DeleteSalesOrder
    \/ TransformToInvoice
    \/ CancelSalesOrder
    \/ BatchApprovePurchaseOrders
    \/ BatchDeletePurchaseOrders

SpecWrites == Init /\ [][NextWrites]_vars

\* The store holding one live document, as create_invoice or
\* create_purchase_order leaves it, and two requests about to update it
InitConcurrent ==
    /\ \E uuid \in Uuids, user \in Users, now \in Times :
          \/ /\ \E data \in InvoiceCreateRequests :
                    obj_tp_job_invoice =
                        (uuid :> NewInvoice(("modified" :> now) @@ data))
             /\ obj_tp_purchaseorder = EmptyTable
             /\ po_path = EmptyTable
          \/ /\ \E data \in PurchaseOrderCreateRequests :
                    obj_tp_purchaseorder =
                        (uuid :> NewPurchaseOrder(("modified" :> now) @@ data))
             /\ obj_tp_job_invoice = EmptyTable
             /\ po_path = (uuid :> NoPath)
    /\ last = NoResponse
    /\ call = NoCall
    /\ requests = NoRequests
    /\ chain = NoChain

LoadInvoice ==
    \E r \in RequestIds, uuid \in Uuids, data \in InvoiceStatusRequests :
        load_invoice(r, uuid, data)

CommitInvoice ==
    \E r \in RequestIds, user \in Users, now \in Times :
        commit_invoice(r, user, now)

LoadPurchaseOrder ==
    \E r \in RequestIds, uuid \in Uuids, data \in PurchaseOrderStatusRequests :
        load_purchase_order(r, uuid, data)

CommitPurchaseOrder ==
    \E r \in RequestIds, user \in Users, now \in Times :
        commit_purchase_order(r, user, now)

NextConcurrent ==
    \/ LoadInvoice
    \/ CommitInvoice
    \/ LoadPurchaseOrder
    \/ CommitPurchaseOrder

SpecConcurrent == InitConcurrent /\ [][NextConcurrent]_vars

\* One call of a validator on arguments drawn from StatusArgs
InitValidator ==
    /\ obj_tp_job_invoice = EmptyTable
    /\ obj_tp_purchaseorder = EmptyTable
    /\ po_path = EmptyTable
    /\ last = NoResponse
    /\ call \in [type : {"invoice", "po"}, current_status : StatusArgs,
                 new_status : StatusArgs, result : {"pending"}]
    /\ requests = NoRequests
    /\ chain = NoChain

NextValidator == ValidateInvoice \/ ValidatePO

SpecValidator == InitValidator /\ [][NextValidator]_vars

\* One document of either type, starting in any status of its enumeration,
\* taken through the statuses its validator allows.
InitChain ==
    /\ obj_tp_job_invoice = EmptyTable
    /\ obj_tp_purchaseorder = EmptyTable
    /\ po_path = EmptyTable
    /\ last = NoResponse
    /\ call = NoCall
    /\ requests = NoRequests
    /\ chain \in {[type |-> "invoice", path |-> <<status>>] :
                      status \in InvoiceStatus}
                  \cup {[type |-> "po", path |-> <<status>>] :
                           status \in POStatus}

RequestAnyTransition ==
    \E new_status \in Enumeration(chain.type) : RequestTransition(new_status)

NextChain ==
    \/ RequestAnyTransition
    \/ ValidateInvoice
    \/ ValidatePO
    \/ FollowTransition

SpecChain == InitChain /\ [][NextChain]_vars

----------------------------------------------------------------------------
(* The validators against the transition tables as specified *)

Returned == call.result # "none" /\ call.result # "pending"

\* the enumeration of the validator that was called
Recognized == IF call.type = "invoice" THEN InvoiceStatus ELSE POStatus

SpecifiedInvoiceSuccessors(c) ==
    CASE c = "Draft" -> {"Pending", "Sent", "Cancelled"}
      [] c = "Pending" -> {"Sent", "Cancelled"}
      [] c = "Sent" -> {"Paid", "Overdue", "Cancelled"}
      [] c = "Paid" -> {"Refunded"}
      [] c = "Overdue" -> {"Paid", "Cancelled"}
      [] OTHER -> {}

SpecifiedPOSuccessors(c) ==
    CASE c = "Pending" -> {"Accepted", "Declined", "Cancelled"}
      [] c = "Accepted" -> {"In Progress", "Cancelled"}
      [] c = "In Progress" -> {"Completed", "Cancelled"}
      [] c = "Completed" -> {"Approved"}
      [] c = "Approved" -> {"Paid"}
      [] c = "Disputed" -> {"Approved", "Cancelled"}
      [] OTHER -> {}

SpecifiedTerminal ==
    IF call.type = "invoice"
    THEN {"Cancelled", "Refunded"}
    ELSE {"Paid", "Declined", "Cancelled", "Expired"}

\* C1: for every pair of distinct recognized invoice statuses (c, r),
\* validate_invoice_status_transition(c, r) returns True exactly when r is a
\* successor of c in the specified invoice table, and raises
\* InvalidStatusTransitionError otherwise.
C1_InvoiceTransitions ==
    (/\ Returned
     /\ call.type = "invoice"
     /\ call.current_status \in
            {"Draft", "Pending", "Sent", "Paid", "Overdue", "Cancelled", "Refunded"}
     /\ call.new_status \in
            {"Draft", "Pending", "Sent", "Paid", "Overdue", "Cancelled", "Refunded"}
     /\ call.current_status # call.new_status)
    => IF call.new_status \in SpecifiedInvoiceSuccessors(call.current_status)
       THEN call.result = "True"
       ELSE call.result = InvalidStatusTransitionError

C1_Witness ==
    /\ call.type = "invoice"
    /\ call.current_status = "Draft"
    /\ call.new_status = "Paid"
    /\ call.result = InvalidStatusTransitionError

\* C2: for every pair of distinct recognized purchase-order statuses (c, r),
\* validate_po_status_transition(c, r) returns True exactly when r is a
\* successor of c in the specified purchase-order table, and raises
\* InvalidStatusTransitionError otherwise.
C2_POTransitions ==
    (/\ Returned
     /\ call.type = "po"
     /\ call.current_status \in
            {"Pending", "Accepted", "Declined", "In Progress", "Completed",
             "Approved", "Paid", "Cancelled", "Expired", "Disputed"}
     /\ call.new_status \in
            {"Pending", "Accepted", "Declined", "In Progress", "Completed",
             "Approved", "Paid", "Cancelled", "Expired", "Disputed"}
     /\ call.current_status # call.new_status)
    => IF call.new_status \in SpecifiedPOSuccessors(call.current_status)
       THEN call.result = "True"
       ELSE call.result = InvalidStatusTransitionError

C2_Witness ==
    /\ call.type = "po"
    /\ call.current_status = "Completed"
    /\ call.new_status = "Approved"
    /\ call.result = "True"

\* C3 as stated: from a terminal status, a validator rejects every requested
\* status string different from it, recognized or not.
C3_TerminalRejectsAnything ==
    (/\ Returned
     /\ call.current_status \in SpecifiedTerminal
     /\ IsStr(call.new_status)
     /\ call.new_status # call.current_status)
    => call.result = InvalidStatusTransitionError

\* C3 amended: from a terminal status, a validator rejects every requested
\* status that is a member of its enumeration and different from it.
C3_TerminalRejectsRecognized ==
    (/\ Returned
     /\ call.current_status \in SpecifiedTerminal
     /\ call.new_status \in Recognized
     /\ call.new_status # call.current_status)
    => call.result = InvalidStatusTransitionError

C3_Witness ==
    /\ call.type = "po"
    /\ call.current_status = "Paid"
    /\ call.new_status = "Approved"
    /\ call.result = InvalidStatusTransitionError

\* C4: for both validators and every status string s, recognized or not,
\* validating (s, s) returns True and does not raise, also when s is terminal.
C4_SameStatusAllowed ==
    (/\ Returned
     /\ IsStr(call.current_status)
     /\ call.new_status = call.current_status)
    => call.result = "True"

C4_Witness ==
    /\ call.type = "po"
    /\ call.current_status = "Paid"
    /\ call.new_status = "Paid"
    /\ call.result = "True"

\* C5: for both validators, when the current or the requested status is a
\* string outside the enumeration, the validator returns True and does not
\* raise, whatever the other argument is.
C5_UnrecognizedAllowed ==
    (/\ Returned
     /\ \/ (IsStr(call.current_status) /\ call.current_status \notin Recognized)
        \/ (IsStr(call.new_status) /\ call.new_status \notin Recognized))
    => call.result = "True"

C5_Witness ==
    /\ call.type = "invoice"
    /\ call.current_status = "Cancelled"
    /\ call.new_status = "Archived"
    /\ call.result = "True"

----------------------------------------------------------------------------
(* The services against the validators *)

Rejected(response) == response.outcome = InvalidStatusTransitionError

Completed(response, op) == response.op = op /\ response.outcome = "ok"

\* the call reached a live document: it did not fail as not found
FoundLive(response) ==
    response.outcome \notin {"none", InvoiceNotFoundError, PurchaseOrderNotFoundError}

\* C6: when the validator rejects inside update_invoice,
\* update_purchase_order, approve_invoice or approve_purchase_order, the call
\* raises InvalidStatusTransitionError and every field of every stored
\* document, the fields sent in the same request included, is as before.
C6_RejectionWritesNothing ==
    [][Rejected(last') =>
          /\ last'.op \in {"update_invoice", "update_purchase_order",
                           "approve_invoice", "approve_purchase_order"}
          /\ last'.validated
          /\ obj_tp_job_invoice' = obj_tp_job_invoice
          /\ obj_tp_purchaseorder' = obj_tp_purchaseorder]_vars

C6_Witness ==
    /\ last.op = "update_invoice"
    /\ Rejected(last)
    /\ {"status", "amount"} \subseteq last.keys

\* C7: approve applied to a live document whose status has no edge to
\* "Approved" in its type's transition table is rejected with
\* InvalidStatusTransitionError, and status and approval fields stay as they
\* were.
C7_ApproveWithoutEdgeRejected ==
    [][(/\ last'.op \in {"approve_invoice", "approve_purchase_order"}
        /\ FoundLive(last')
        /\ "Approved" \notin
               (IF last'.op = "approve_invoice"
                THEN SpecifiedInvoiceSuccessors(last'.pre_status)
                ELSE SpecifiedPOSuccessors(last'.pre_status)))
       => /\ Rejected(last')
          /\ obj_tp_job_invoice' = obj_tp_job_invoice
          /\ obj_tp_purchaseorder' = obj_tp_purchaseorder]_vars

\* C8: approve_purchase_order applied to a live purchase order in status
\* "Pending" commits the change and returns a non-null record.
C8_ApprovePendingCompletes ==
    (/\ last.op = "approve_purchase_order"
     /\ FoundLive(last)
     /\ last.pre_status = "Pending")
    => /\ last.outcome = "ok"
       /\ last.returned # {}

\* C9 as stated: under update_purchase_order and approve_purchase_order
\* calls alone, a purchase order created as Pending has status Paid only
\* after it held Accepted, In Progress, Completed and Approved, in that order.
C9_PaidOnlyThroughChain ==
    \A po_uuid \in DOMAIN obj_tp_purchaseorder :
        (/\ po_path[po_uuid].tracked
         /\ obj_tp_purchaseorder[po_uuid].status = "Paid")
        => po_path[po_uuid].stage = Len(ApprovalChain)

\* C9 amended: the same, provided every status the update calls requested
\* is a member of the purchase-order enumeration.
C9_PaidOnlyThroughChainRecognized ==
    \A po_uuid \in DOMAIN obj_tp_purchaseorder :
        (/\ po_path[po_uuid].tracked
         /\ po_path[po_uuid].recognized_requests
         /\ obj_tp_purchaseorder[po_uuid].status = "Paid")
        => po_path[po_uuid].stage = Len(ApprovalChain)

C9_Witness ==
    \E po_uuid \in DOMAIN obj_tp_purchaseorder :
        /\ po_path[po_uuid].tracked
        /\ po_path[po_uuid].recognized_requests
        /\ po_path[po_uuid].stage = Len(ApprovalChain)
        /\ obj_tp_purchaseorder[po_uuid].status = "Paid"
        /\ Completed(last, "update_purchase_order")

\* C10: archiving a live invoice in status "Draft" leaves it with status
\* "Archived" and deleted true, and restoring it next leaves it with status
\* "Draft" and deleted false; the same for a purchase order in status
\* "Pending" and is_deleted; neither step calls the validator or raises
\* InvalidStatusTransitionError.
C10_ArchiveRestoreRoundTrip ==
    [][/\ (Completed(last', "archive_invoice") /\ last'.pre_status = "Draft")
          => /\ obj_tp_job_invoice'[last'.uuid].status = "Archived"
             /\ obj_tp_job_invoice'[last'.uuid].deleted = True
       /\ (/\ Completed(last, "archive_invoice") /\ last.pre_status = "Draft"
           /\ last'.op = "restore_invoice" /\ last'.uuid = last.uuid)
          => /\ last'.outcome = "ok"
             /\ obj_tp_job_invoice'[last'.uuid].status = "Draft"
             /\ obj_tp_job_invoice'[last'.uuid].deleted = False
       /\ (Completed(last', "archive_purchase_order") /\ last'.pre_status = "Pending")
          => /\ obj_tp_purchaseorder'[last'.uuid].status = "Archived"
             /\ obj_tp_purchaseorder'[last'.uuid].is_deleted = True
       /\ (/\ Completed(last, "archive_purchase_order") /\ last.pre_status = "Pending"
           /\ last'.op = "restore_purchase_order" /\ last'.uuid = last.uuid)
          => /\ last'.outcome = "ok"
             /\ obj_tp_purchaseorder'[last'.uuid].status = "Pending"
             /\ obj_tp_purchaseorder'[last'.uuid].is_deleted = False
       /\ last'.op \in {"archive_invoice", "restore_invoice",
                        "archive_purchase_order", "restore_purchase_order"}
          => ~last'.validated /\ ~Rejected(last')]_vars

C10_Witness ==
    /\ Completed(last, "restore_invoice")
    /\ last.pre_status = "Archived"
    /\ obj_tp_job_invoice[last.uuid].status = "Draft"
    /\ obj_tp_job_invoice[last.uuid].deleted = False

----------------------------------------------------------------------------
(* Archive, restore and soft delete *)

\* C11: archive_invoice and archive_purchase_order applied to a live
\* document in any status, terminal or not, recognized or not, set the
\* deleted flag to true and the status to "Archived" in one step, without
\* calling the validator or raising InvalidStatusTransitionError.
C11_ArchiveForcesArchived ==
    [][/\ (/\ last'.op = "archive_invoice"
           /\ LiveInvoice(obj_tp_job_invoice, last'.uuid))
          => /\ last'.outcome = "ok"
             /\ ~last'.validated
             /\ obj_tp_job_invoice'[last'.uuid].deleted = True
             /\ obj_tp_job_invoice'[last'.uuid].status = "Archived"
       /\ (/\ last'.op = "archive_purchase_order"
           /\ LivePurchaseOrder(obj_tp_purchaseorder, last'.uuid))
          => /\ last'.outcome = "ok"
             /\ ~last'.validated
             /\ obj_tp_purchaseorder'[last'.uuid].is_deleted = True
             /\ obj_tp_purchaseorder'[last'.uuid].status = "Archived"]_vars

C11_Witness ==
    /\ Completed(last, "archive_purchase_order")
    /\ last.pre_status = "Paid"
    /\ obj_tp_purchaseorder[last.uuid].status = "Archived"
    /\ obj_tp_purchaseorder[last.uuid].is_deleted = True

\* what restore does to one stored document: the flag is cleared, and the
\* status becomes the default exactly when it was "Archived"
RestoredFrom(row, row_after, flag, default) ==
    /\ row_after[flag] = False
    /\ row_after.status = IF row.status = "Archived" THEN default ELSE row.status

RestoreClearsFlag ==
    /\ (/\ last'.op = "restore_invoice"
        /\ last'.uuid \in DOMAIN obj_tp_job_invoice)
       => /\ last'.outcome = "ok"
          /\ ~last'.validated
          /\ RestoredFrom(obj_tp_job_invoice[last'.uuid],
                          obj_tp_job_invoice'[last'.uuid], "deleted", "Draft")
    /\ (/\ last'.op = "restore_purchase_order"
        /\ last'.uuid \in DOMAIN obj_tp_purchaseorder)
       => /\ last'.outcome = "ok"
          /\ ~last'.validated
          /\ RestoredFrom(obj_tp_purchaseorder[last'.uuid],
                          obj_tp_purchaseorder'[last'.uuid], "is_deleted",
                          "Pending")

\* a delete of a document that had one of the given statuses, followed at
\* once by a restore of the same document, leaves the status it had before
\* the delete and the flag cleared
DeleteRestoreRoundTrip(statuses) ==
    /\ (/\ Completed(last, "delete_invoice")
        /\ last.pre_status \in statuses
        /\ last'.op = "restore_invoice" /\ last'.uuid = last.uuid)
       => /\ obj_tp_job_invoice'[last'.uuid].status = last.pre_status
          /\ obj_tp_job_invoice'[last'.uuid].deleted = False
    /\ (/\ Completed(last, "delete_purchase_order")
        /\ last.pre_status \in statuses
        /\ last'.op = "restore_purchase_order" /\ last'.uuid = last.uuid)
       => /\ obj_tp_purchaseorder'[last'.uuid].status = last.pre_status
          /\ obj_tp_purchaseorder'[last'.uuid].is_deleted = False

\* C12 as stated: restore applied to an existing document, deleted or not,
\* clears the deleted flag, sets the status to the type's default exactly
\* when the stored status is "Archived" and leaves it otherwise, without
\* raising InvalidStatusTransitionError; so delete followed by restore
\* returns a document to its status and flag of before the delete.
C12_RestoreReturnsAnyStatus ==
    [][RestoreClearsFlag /\ DeleteRestoreRoundTrip(StatusArgs)]_vars

\* C12 amended: the same, the round trip holding for a document whose
\* status before the delete is not "Archived".
C12_RestoreReturnsUnlessArchived ==
    [][RestoreClearsFlag /\ DeleteRestoreRoundTrip(StatusArgs \ {"Archived"})]_vars

C12_Witness ==
    /\ Completed(last, "restore_purchase_order")
    /\ last.pre_status = "Approved"
    /\ obj_tp_purchaseorder[last.uuid].status = "Approved"
    /\ obj_tp_purchaseorder[last.uuid].is_deleted = False

\* C13: delete_invoice, delete_purchase_order and delete_sales_order applied
\* to a live document in any status set the deleted flag to true and leave
\* the status as it was, without calling the validator or raising
\* InvalidStatusTransitionError; a document with status "Approved" and the
\* flag set is reachable (C13_Witness).
C13_DeleteKeepsStatus ==
    [][/\ (/\ last'.op = "delete_invoice"
           /\ LiveInvoice(obj_tp_job_invoice, last'.uuid))
          => /\ last'.outcome = "ok"
             /\ ~last'.validated
             /\ obj_tp_job_invoice'[last'.uuid].deleted = True
             /\ obj_tp_job_invoice'[last'.uuid].status =
                    obj_tp_job_invoice[last'.uuid].status
       /\ (/\ last'.op = "delete_purchase_order"
           /\ LivePurchaseOrder(obj_tp_purchaseorder, last'.uuid))
          => /\ last'.outcome = "ok"
             /\ ~last'.validated
             /\ obj_tp_purchaseorder'[last'.uuid].is_deleted = True
             /\ obj_tp_purchaseorder'[last'.uuid].status =
                    obj_tp_purchaseorder[last'.uuid].status
       /\ (/\ last'.op = "delete_sales_order"
           /\ LiveSalesOrder(obj_tp_job_invoice, last'.uuid))
          => /\ last'.outcome = "ok"
             /\ ~last'.validated
             /\ obj_tp_job_invoice'[last'.uuid].deleted = True
             /\ obj_tp_job_invoice'[last'.uuid].status =
                    obj_tp_job_invoice[last'.uuid].status]_vars

C13_Witness ==
    /\ Completed(last, "delete_invoice")
    /\ last.pre_status = "Approved"
    /\ obj_tp_job_invoice[last.uuid].status = "Approved"
    /\ obj_tp_job_invoice[last.uuid].deleted = True

\* the identifier is of no stored row, or of a soft-deleted one
Gone(table, uuid, flag) == uuid \notin DOMAIN table \/ table[uuid][flag] = True

StoreUnchanged ==
    /\ obj_tp_job_invoice' = obj_tp_job_invoice
    /\ obj_tp_purchaseorder' = obj_tp_purchaseorder

\* C14: get, update, delete, archive and approve of an invoice or a purchase
\* order, and update, delete, transform and cancel of a sales order, applied
\* to a soft-deleted or unknown identifier fail with the type's NotFound
\* error and change no stored field, so a second delete or archive of the
\* same document fails; restore finds a soft-deleted document and fails
\* with NotFound exactly for an identifier that was never stored.
C14_NotFoundUnlessRestore ==
    [][/\ (/\ last'.op \in {"get_invoice_or_404", "update_invoice",
                            "delete_invoice", "archive_invoice",
                            "approve_invoice"}
           /\ Gone(obj_tp_job_invoice, last'.uuid, "deleted"))
          => last'.outcome = InvoiceNotFoundError /\ StoreUnchanged
       /\ (/\ last'.op \in {"get_purchase_order_or_404", "update_purchase_order",
                            "delete_purchase_order", "archive_purchase_order",
                            "approve_purchase_order"}
           /\ Gone(obj_tp_purchaseorder, last'.uuid, "is_deleted"))
          => last'.outcome = PurchaseOrderNotFoundError /\ StoreUnchanged
       /\ (/\ last'.op \in {"update_sales_order", "delete_sales_order",
                            "transform_to_invoice", "cancel_sales_order"}
           /\ Gone(obj_tp_job_invoice, last'.uuid, "deleted"))
          => last'.outcome = SalesOrderNotFoundError /\ StoreUnchanged
       /\ (/\ last.op \in {"delete_invoice", "archive_invoice"}
           /\ last.outcome = "ok"
           /\ last'.op \in {"delete_invoice", "archive_invoice"}
           /\ last'.uuid = last.uuid)
          => last'.outcome = InvoiceNotFoundError
       /\ (/\ last.op \in {"delete_purchase_order", "archive_purchase_order"}
           /\ last.outcome = "ok"
           /\ last'.op \in {"delete_purchase_order", "archive_purchase_order"}
           /\ last'.uuid = last.uuid)
          => last'.outcome = PurchaseOrderNotFoundError
       /\ (/\ last.op = "delete_sales_order"
           /\ last.outcome = "ok"
           /\ last'.op = "delete_sales_order"
           /\ last'.uuid = last.uuid)
          => last'.outcome = SalesOrderNotFoundError
       /\ last'.op = "restore_invoice"
          => (last'.outcome = InvoiceNotFoundError
                 <=> last'.uuid \notin DOMAIN obj_tp_job_invoice)
             /\ (last'.outcome = "ok"
                 <=> last'.uuid \in DOMAIN obj_tp_job_invoice)
       /\ last'.op = "restore_purchase_order"
          => (last'.outcome = PurchaseOrderNotFoundError
                 <=> last'.uuid \notin DOMAIN obj_tp_purchaseorder)
             /\ (last'.outcome = "ok"
                 <=> last'.uuid \in DOMAIN obj_tp_purchaseorder)]_vars

C14_Witness ==
    /\ last.op = "cancel_sales_order"
    /\ last.outcome = SalesOrderNotFoundError
    /\ last.uuid \in DOMAIN obj_tp_job_invoice
    /\ obj_tp_job_invoice[last.uuid].deleted = True
    /\ obj_tp_job_invoice[last.uuid].invoice_type = "Pro Forma"

----------------------------------------------------------------------------
(* What archive, transform and cancel return *)

\* C15: archive_invoice and archive_purchase_order, when they succeed,
\* return a non-null record of the archived document, with status
\* "Archived".
C15_ArchiveReturnsRecord ==
    (/\ last.op \in {"archive_invoice", "archive_purchase_order"}
     /\ last.outcome = "ok")
    => /\ last.returned # {}
       /\ \A record \in last.returned : record.status = "Archived"

\* C16: transform_to_invoice, when it succeeds, returns a non-null record of
\* the transformed document, with the new invoice_type and status "Draft".
C16_TransformReturnsRecord ==
    Completed(last, "transform_to_invoice")
    => /\ last.returned # {}
       /\ \A record \in last.returned :
              /\ record.status = "Draft"
              /\ record.invoice_type = obj_tp_job_invoice[last.uuid].invoice_type

\* C17: transform_to_invoice applied to a live sales order in any status
\* sets invoice_type to the requested target type, or to "Tax Invoice" when
\* the request gives none, and status to "Draft", without calling the
\* validator or raising InvalidStatusTransitionError, from a terminal status
\* such as "Cancelled" too.
C17_TransformSetsTypeAndDraft ==
    [][\A uuid \in Uuids, data \in TransformToInvoiceRequests, user \in Users,
          now \in Times :
           (/\ LiveSalesOrder(obj_tp_job_invoice, uuid)
            /\ transform_to_invoice(uuid, data, user, now))
           => /\ last'.outcome = "ok"
              /\ ~last'.validated
              /\ obj_tp_job_invoice'[uuid].status = "Draft"
              /\ obj_tp_job_invoice'[uuid].invoice_type =
                     (IF data.invoice_type \in {None, ""}
                      THEN "Tax Invoice" ELSE data.invoice_type)]_vars

C17_Witness ==
    /\ Completed(last, "transform_to_invoice")
    /\ last.pre_status = "Cancelled"
    /\ obj_tp_job_invoice[last.uuid].status = "Draft"
    /\ obj_tp_job_invoice[last.uuid].invoice_type = "Tax Invoice"

\* C18: cancel_sales_order applied to a live sales order in any status sets
\* the status to "Cancelled" and returns a record with status "Cancelled",
\* without calling the validator; with a non-empty reason the notes become
\* the notes of before followed by "\n[Cancelled: reason]", and with no
\* reason the notes stay as they were.
C18_CancelSetsCancelled ==
    [][\A uuid \in Uuids, data \in CancelSalesOrderRequests, user \in Users,
          now \in Times :
           (/\ LiveSalesOrder(obj_tp_job_invoice, uuid)
            /\ cancel_sales_order(uuid, data, user, now))
           => /\ last'.outcome = "ok"
              /\ ~last'.validated
              /\ obj_tp_job_invoice'[uuid].status = "Cancelled"
              /\ last'.returned # {}
              /\ \A record \in last'.returned : record.status = "Cancelled"
              /\ obj_tp_job_invoice'[uuid].notes =
                     (IF data.reason \in {None, ""}
                      THEN obj_tp_job_invoice[uuid].notes
                      ELSE (IF obj_tp_job_invoice[uuid].notes = None
                            THEN "" ELSE obj_tp_job_invoice[uuid].notes)
                           \o "\n[Cancelled: " \o data.reason \o "]")]_vars

C18_Witness ==
    /\ Completed(last, "cancel_sales_order")
    /\ last.pre_status = "Sent"
    /\ obj_tp_job_invoice[last.uuid].status = "Cancelled"
    /\ obj_tp_job_invoice[last.uuid].notes = "hold\n[Cancelled: dup]"

----------------------------------------------------------------------------
(* Batches *)

Distinct(seq) ==
    \A i, j \in 1..Len(seq) : i # j => seq[i] # seq[j]

\* approve_purchase_order would not reject the order
ApproveAllowed(po) ==
    validate_po_status_transition(OrDefault(po.status, "Pending"), "Approved")
        = "True"

\* C19: batch_approve_purchase_orders called with N identifiers of live
\* purchase orders, M of them in a status from which the transition to
\* "Approved" is rejected, returns success_count = N-M, failure_count = M
\* and N entries, and the N-M other orders end with status "Approved".
C19_BatchApproveCounts ==
    [][\A po_uuids \in BatchLists, user \in Users, now \in Times :
           (/\ Distinct(po_uuids)
            /\ \A i \in 1..Len(po_uuids) :
                   LivePurchaseOrder(obj_tp_purchaseorder, po_uuids[i])
            /\ batch_approve_purchase_orders(po_uuids, user, now))
           => LET N == Len(po_uuids)
                  rejected ==
                      {i \in 1..N :
                          ~ApproveAllowed(obj_tp_purchaseorder[po_uuids[i]])}
                  M == Cardinality(rejected)
              IN  /\ last'.returned # {}
                  /\ \A result \in last'.returned :
                         /\ result.success_count = N - M
                         /\ result.failure_count = M
                         /\ Len(result.results) = N
                  /\ \A i \in 1..N :
                         obj_tp_purchaseorder'[po_uuids[i]].status = "Approved"
                             <=> (i \notin rejected
                                  \/ obj_tp_purchaseorder[po_uuids[i]].status
                                         = "Approved")]_vars

\* the batch call a step made, if it made one
BatchCall(po_uuids, user, now) ==
    \/ batch_approve_purchase_orders(po_uuids, user, now)
    \/ batch_delete_purchase_orders(po_uuids, user, now)

----------------------------------------------------------------------------
(* Approval, records kept, terminal statuses *)

\* C21: a successful approve_purchase_order leaves the order, in the one
\* step, with status "Approved", approvedforpayment 1 and approveddate the
\* time of the call; on a live order that is already "Approved" it succeeds
\* again and the status stays "Approved".
C21_ApproveSetsApprovalFields ==
    [][\A uuid \in Uuids, user \in Users, now \in Times :
           approve_purchase_order(uuid, user, now)
           => /\ last'.outcome = "ok"
                 => /\ obj_tp_purchaseorder'[uuid].status = "Approved"
                    /\ obj_tp_purchaseorder'[uuid].approvedforpayment = "1"
                    /\ obj_tp_purchaseorder'[uuid].approveddate = now
              /\ (/\ LivePurchaseOrder(obj_tp_purchaseorder, uuid)
                  /\ obj_tp_purchaseorder[uuid].status = "Approved")
                 => last'.outcome = "ok"]_vars

C21_Witness ==
    /\ Completed(last, "approve_purchase_order")
    /\ last.pre_status = "Approved"
    /\ obj_tp_purchaseorder[last.uuid].status = "Approved"
    /\ obj_tp_purchaseorder[last.uuid].approvedforpayment = "1"
    /\ obj_tp_purchaseorder[last.uuid].approveddate \in Times

\* C22: no call of the services removes a stored invoice, purchase order or
\* sales order: every identifier stored before a step is stored after it,
\* so the store holds every identifier ever created.
C22_NoRecordRemoved ==
    [][/\ DOMAIN obj_tp_job_invoice \subseteq DOMAIN obj_tp_job_invoice'
       /\ DOMAIN obj_tp_purchaseorder \subseteq DOMAIN obj_tp_purchaseorder']_vars

C22_Witness ==
    /\ Completed(last, "delete_purchase_order")
    /\ last.uuid \in DOMAIN obj_tp_purchaseorder
    /\ obj_tp_purchaseorder[last.uuid].is_deleted = True

\* C23: once a live invoice has status "Cancelled" or "Refunded", no
\* update_invoice or approve_invoice call changes its status.
C23_TerminalInvoiceAbsorbing ==
    [][(/\ last'.op \in {"update_invoice", "approve_invoice"}
        /\ LiveInvoice(obj_tp_job_invoice, last'.uuid)
        /\ obj_tp_job_invoice[last'.uuid].status \in {"Cancelled", "Refunded"})
       => obj_tp_job_invoice'[last'.uuid].status
              = obj_tp_job_invoice[last'.uuid].status]_vars

\* C25: update_invoice and update_purchase_order that request a status (a
\* string) for a live document whose stored status is null or empty validate the
\* request against "Draft" (invoice) or "Pending" (purchase order): a
\* request the validator rejects from that default is rejected and nothing
\* is written.
C25_EmptyStatusValidatedFromDefault ==
    [][/\ last'.op = "update_invoice"
          => \A uuid \in Uuids, data \in InvoiceUpdateRequests, user \in Users,
                now \in Times :
                 (/\ LiveInvoice(obj_tp_job_invoice, uuid)
                  /\ ~Truthy(obj_tp_job_invoice[uuid].status)
                  /\ "status" \in DOMAIN data
                  /\ IsStr(data["status"])
                  /\ validate_invoice_status_transition("Draft", data["status"])
                         = InvalidStatusTransitionError
                  /\ update_invoice(uuid, data, user, now))
                 => Rejected(last') /\ StoreUnchanged
       /\ last'.op = "update_purchase_order"
          => \A uuid \in Uuids, data \in PurchaseOrderUpdateRequests,
                user \in Users, now \in Times :
                 (/\ LivePurchaseOrder(obj_tp_purchaseorder, uuid)
                  /\ ~Truthy(obj_tp_purchaseorder[uuid].status)
                  /\ "status" \in DOMAIN data
                  /\ IsStr(data["status"])
                  /\ validate_po_status_transition("Pending", data["status"])
                         = InvalidStatusTransitionError
                  /\ update_purchase_order(uuid, data, user, now))
                 => Rejected(last') /\ StoreUnchanged]_vars

----------------------------------------------------------------------------
(* Interleaved updates *)

\* request r commits in this step
Commits(r) == requests[r].pc = "loaded" /\ requests'[r].pc = "done"

LoadedStatus(request) == (CHOOSE row \in request.loaded : TRUE).status

RequestedStatus(request) ==
    (CHOOSE update_data \in request.update_data : TRUE)["status"]

\* what the validator of the request's type says of the move from the
\* status the request loaded to the status it asks for
VerdictOnLoaded(request) ==
    IF ~Truthy(LoadedStatus(request)) THEN "True"
    ELSE IF request.kind = "invoice"
    THEN validate_invoice_status_transition(LoadedStatus(request),
                                            RequestedStatus(request))
    ELSE validate_po_status_transition(LoadedStatus(request),
                                       RequestedStatus(request))

StoredStatus(request, invoices, purchase_orders) ==
    IF request.kind = "invoice"
    THEN invoices[request.uuid].status
    ELSE purchase_orders[request.uuid].status

\* C24: of two update requests for one document that may both load before
\* either commits, each is accepted or rejected by the validator's verdict
\* on the status it loaded and the status it asks for, whatever the other
\* has committed since; a rejected request writes nothing; and an accepted
\* request that changes the status leaves the stored status as it asked,
\* also when that is no permitted successor of the status stored by the
\* earlier commit (Sent loaded by both, Paid committed, Cancelled committed).
C24_LastCommitWins ==
    [][\A r \in RequestIds :
           Commits(r)
           => /\ requests'[r].outcome =
                     (IF VerdictOnLoaded(requests[r]) = InvalidStatusTransitionError
                      THEN InvalidStatusTransitionError ELSE "ok")
              /\ requests'[r].outcome = InvalidStatusTransitionError
                 => StoreUnchanged
              /\ (/\ requests'[r].outcome = "ok"
                  /\ RequestedStatus(requests[r]) # LoadedStatus(requests[r]))
                 => StoredStatus(requests[r], obj_tp_job_invoice',
                                 obj_tp_purchaseorder')
                        = RequestedStatus(requests[r])]_vars

C24_Witness ==
    /\ \A r \in RequestIds :
           /\ requests[r].pc = "done"
           /\ requests[r].outcome = "ok"
           /\ requests[r].kind = "invoice"
           /\ LoadedStatus(requests[r]) = "Sent"
    /\ RequestedStatus(requests["request-1"]) = "Paid"
    /\ RequestedStatus(requests["request-2"]) = "Cancelled"
    /\ obj_tp_job_invoice["UUID-1234"].status = "Cancelled"
    /\ validate_invoice_status_transition("Paid", "Cancelled")
           = InvalidStatusTransitionError

----------------------------------------------------------------------------
(* Sales orders: validated update, transformed orders *)

\* C26: update_sales_order that changes the status of a live sales order
\* calls the transition validator on (current status, requested status): a
\* change the table does not allow ("Cancelled" to "Draft") is rejected with
\* InvalidStatusTransitionError and the order is left as it was.
C26_SalesOrderUpdateValidated ==
    [][last'.op = "update_sales_order"
       => \A uuid \in Uuids, data \in SalesOrderUpdateRequests, user \in Users,
             now \in Times :
              (/\ LiveSalesOrder(obj_tp_job_invoice, uuid)
               /\ "status" \in DOMAIN data
               /\ IsStr(data["status"])
               /\ Truthy(obj_tp_job_invoice[uuid].status)
               /\ validate_invoice_status_transition(
                      obj_tp_job_invoice[uuid].status, data["status"])
                      = InvalidStatusTransitionError
               /\ update_sales_order(uuid, data, user, now))
              => Rejected(last') /\ StoreUnchanged]_vars

SalesOrderOps ==
    {"get_sales_order_or_404", "update_sales_order", "delete_sales_order",
     "transform_to_invoice", "cancel_sales_order"}

\* the row is stored with an invoice_type that is not a sales order's
Transformed(table, uuid) ==
    /\ uuid \in DOMAIN table
    /\ table[uuid].invoice_type \notin {"Pro Forma", "Sales Order"}

\* C29: once transform_to_invoice has given a document an invoice_type
\* other than "Pro Forma" or "Sales Order", every call of the sales-order
\* service on its identifier (get, update, delete, transform, cancel) fails
\* with SalesOrderNotFoundError and writes nothing, so the document stays
\* transformed and a second transform fails.
C29_TransformedIsGone ==
    [][\A uuid \in Uuids :
           Transformed(obj_tp_job_invoice, uuid)
           => /\ Transformed(obj_tp_job_invoice', uuid)
              /\ (last'.op \in SalesOrderOps /\ last'.uuid = uuid)
                 => /\ last'.outcome = SalesOrderNotFoundError
                    /\ StoreUnchanged]_vars

C29_Witness ==
    /\ last.op = "transform_to_invoice"
    /\ last.outcome = SalesOrderNotFoundError
    /\ Transformed(obj_tp_job_invoice, last.uuid)
    /\ obj_tp_job_invoice[last.uuid].invoice_type = "Tax Invoice"
    /\ obj_tp_job_invoice[last.uuid].deleted # True

----------------------------------------------------------------------------
(* The status "Archived" and the deleted flag *)

LiveArchived(table, uuid, flag) ==
    /\ uuid \in DOMAIN table
    /\ table[uuid][flag] # True
    /\ table[uuid].status = "Archived"

\* The step was a create or an update whose request carried a status
RequestedStatusBy(creates, updates) ==
    /\ last'.op \in creates \cup updates
    /\ last'.outcome = "ok"
    /\ "status" \in last'.keys

\* C27 as stated: in every reachable state no live invoice and no live
\* purchase order (deleted flag not true) has the status "Archived".
C27_LiveNeverArchived ==
    \A uuid \in Uuids :
        /\ ~LiveArchived(obj_tp_job_invoice, uuid, "deleted")
        /\ ~LiveArchived(obj_tp_purchaseorder, uuid, "is_deleted")

\* C27 amended: archive, restore, delete and approve never leave a live
\* document with the status "Archived"; a step that leaves a live invoice or
\* purchase order with the status "Archived" is a create or an update whose
\* request carried the status "Archived" for that document, or the document
\* was already live with that status before the step.
C27_LiveArchivedOnlyOnRequest ==
    [][\A uuid \in Uuids :
           /\ LiveArchived(obj_tp_job_invoice', uuid, "deleted")
              => \/ LiveArchived(obj_tp_job_invoice, uuid, "deleted")
                 \/ /\ RequestedStatusBy({"create_invoice"}, {"update_invoice"})
                    /\ last'.uuid = uuid
           /\ LiveArchived(obj_tp_purchaseorder', uuid, "is_deleted")
              => \/ LiveArchived(obj_tp_purchaseorder, uuid, "is_deleted")
                 \/ /\ RequestedStatusBy({"create_purchase_order"},
                                         {"update_purchase_order"})
                    /\ last'.uuid = uuid]_vars

\* A live purchase order left with the status "Archived" by an update that
\* requested it
C27_Witness ==
    /\ Completed(last, "update_purchase_order")
    /\ "status" \in last.keys
    /\ last.pre_status = "Pending"
    /\ LiveArchived(obj_tp_purchaseorder, last.uuid, "is_deleted")

----------------------------------------------------------------------------
(* Archive followed by restore *)

\* C28: restore called right after a completed archive of the same document
\* succeeds and leaves the document live with its type's default status,
\* "Draft" for an invoice and "Pending" for a purchase order, whatever the
\* status was before the archive (Paid, Cancelled, Refunded, Declined,
\* Expired included); the default has outgoing transitions, and the stored
\* row after the restore does not depend on the pre-archive status.
C28_ArchiveRestoreResets ==
    [][/\ (/\ Completed(last, "archive_invoice")
           /\ last'.op = "restore_invoice" /\ last'.uuid = last.uuid)
          => /\ last'.outcome = "ok"
             /\ obj_tp_job_invoice'[last.uuid].status = "Draft"
             /\ obj_tp_job_invoice'[last.uuid].deleted = False
             /\ LiveInvoice(obj_tp_job_invoice', last.uuid)
             /\ GetOrEmpty(INVOICE_STATUS_TRANSITIONS, "Draft") # <<>>
       /\ (/\ Completed(last, "archive_purchase_order")
           /\ last'.op = "restore_purchase_order" /\ last'.uuid = last.uuid)
          => /\ last'.outcome = "ok"
             /\ obj_tp_purchaseorder'[last.uuid].status = "Pending"
             /\ obj_tp_purchaseorder'[last.uuid].is_deleted = False
             /\ LivePurchaseOrder(obj_tp_purchaseorder', last.uuid)
             /\ GetOrEmpty(PO_STATUS_TRANSITIONS, "Pending") # <<>>]_vars

\* A purchase order that had been approved for payment, live in "Pending"
\* again after archive and restore
C28_Witness ==
    /\ Completed(last, "restore_purchase_order")
    /\ last.pre_status = "Archived"
    /\ obj_tp_purchaseorder[last.uuid].approvedforpayment = "1"
    /\ obj_tp_purchaseorder[last.uuid].status = "Pending"
    /\ obj_tp_purchaseorder[last.uuid].is_deleted = False

----------------------------------------------------------------------------
(* Chains of allowed transitions *)

SpecifiedTerminalOf(type) ==
    IF type = "invoice"
    THEN {"Cancelled", "Refunded"}
    ELSE {"Paid", "Declined", "Cancelled", "Expired"}

\* every key and every successor of the table is a member of the
\* enumeration, and no status lists itself
ClosedOver(table, enum) ==
    /\ DOMAIN table \subseteq enum
    /\ \A status \in DOMAIN table :
           \A i \in 1..Len(table[status]) :
               table[status][i] \in enum /\ table[status][i] # status

\* the validator of the chain's type allows no move from the current status
\* to another member of the enumeration
ChainEnded ==
    \A new_status \in Enumeration(chain.type) \ {CurrentStatus} :
        (IF chain.type = "invoice"
         THEN validate_invoice_status_transition(CurrentStatus, new_status)
         ELSE validate_po_status_transition(CurrentStatus, new_status))
        = InvalidStatusTransitionError

\* C30: both tables are closed over their enumeration and list no status as
\* its own successor; a chain of transitions the validator allows between
\* distinct members of the enumeration never holds a status twice and has at
\* most 5 status changes, and a chain that cannot be extended has ended in a
\* terminal status.
C30_ChainsAcyclicAndBounded ==
    /\ ClosedOver(INVOICE_STATUS_TRANSITIONS, InvoiceStatus)
    /\ ClosedOver(PO_STATUS_TRANSITIONS, POStatus)
    /\ Distinct(chain.path)
    /\ Len(chain.path) - 1 <= 5
    /\ ChainEnded => CurrentStatus \in SpecifiedTerminalOf(chain.type)

\* the longest invoice chain, ended
C30_Witness ==
    /\ chain.type = "invoice"
    /\ chain.path = <<"Draft", "Pending", "Sent", "Overdue", "Paid", "Refunded">>
    /\ ChainEnded

====
